---- MODULE Spec2Model ----
(***************************************************************************)
(* Model of the detection correlation engine and of the video analysis of  *)
(* roadguard-ai:                                                           *)
(*   utils/validationUtils.ts  calculateIou, normalizeAiType,              *)
(*                             calculatePrf, compareDetections             *)
(*   utils/gpxParser.ts        parseGpx                                    *)
(*   components/VideoAnalysis.tsx  interpolateLocation, handleAnalyze,     *)
(*                             handleCancel, useCancellableProcess         *)
(*                                                                         *)
(* Numbers.  A JavaScript number is an IEEE 754 binary64 value, modelled   *)
(* as <<s, e, hi, lo>>: sign s, and the magnitude (hi * 2^27 + lo) * 2^e   *)
(* with a mantissa below 2^53 that has 53 bits unless e = -1074.           *)
(* Infinity is <<s, 972, 0, 0>> and NaN is <<0, 972, 1, 0>>.  Every        *)
(* arithmetic operator rounds to nearest, ties to even, as the code's      *)
(* operator does.  Counters (tp, fp, fn, indices) stay far below 2^31 and  *)
(* are integers of the model.                                              *)
(*                                                                         *)
(* Strings.  A string is the sequence of its UTF-16 code units.  A code     *)
(* unit is written as a one-character string where a module can hold the   *)
(* character (the printable characters of Basic Latin but U+0060, the      *)
(* escapes \t \n \r \f, and U+00A1 to U+00FF) and as the text "U+hhhh"     *)
(* otherwise, so that toLowerCase, toUpperCase, charAt, slice, includes,   *)
(* parseFloat and Date.parse are computed code unit by code unit as the    *)
(* code does.                                                              *)
(*                                                                         *)
(* Objects.  A Record<string, ...> of the code is an object: its own       *)
(* properties and its prototype, which the key __proto__ reads and writes. *)
(***************************************************************************)
EXTENDS Integers, Sequences, FiniteSets, TLC

(***************************************************************************)
(* Bounds of the model                                                     *)
(***************************************************************************)
MaxAi == 2
MaxGt == 2
GridMax == 2
MaxCalls == 2
MaxTrack == 3
MaxTrkpt == 3
MaxCount == 4
MaxRuns == 2
MaxFrames == 2
MaxDefects == 2

(***************************************************************************)
(* JavaScript numbers: IEEE 754 binary64, round to nearest, ties to even   *)
(***************************************************************************)
B14 == 16384
B25 == 33554432
B26 == 67108864
B27 == 134217728
EMin == 0 - 1074
EInf == 972

Max(a, b) == IF a >= b THEN a ELSE b
Min(a, b) == IF a <= b THEN a ELSE b

Zero == <<0, EMin, 0, 0>>
NegZero == <<1, EMin, 0, 0>>
NaN == <<0, EInf, 1, 0>>
Infinity(s) == <<s, EInf, 0, 0>>

IsNaN(a) == a[2] = EInf /\ (a[3] # 0 \/ a[4] # 0)
IsInfinite(a) == a[2] = EInf /\ a[3] = 0 /\ a[4] = 0
IsZero(a) == a[2] # EInf /\ a[3] = 0 /\ a[4] = 0
IsFinite(a) == a[2] # EInf

\* the number of bits of x, 0 <= x < 2^31
BitLen4(x) ==
    IF x >= 4 THEN (IF x >= 8 THEN 4 ELSE 3)
    ELSE IF x >= 2 THEN 2 ELSE IF x >= 1 THEN 1 ELSE 0
BitLen8(x) == IF x >= 16 THEN 4 + BitLen4(x \div 16) ELSE BitLen4(x)
BitLen16(x) == IF x >= 256 THEN 8 + BitLen8(x \div 256) ELSE BitLen8(x)
BitLen(x) == IF x >= 65536 THEN 16 + BitLen16(x \div 65536) ELSE BitLen16(x)

\* A natural number below 2^58 is <<hi, lo>> = hi * 2^27 + lo, lo < 2^27
WBitLen(w) == IF w[1] > 0 THEN 27 + BitLen(w[1]) ELSE BitLen(w[2])

\* w * 2^k, for a result below 2^58
RECURSIVE ShiftLeft(_, _)
ShiftLeft(w, k) ==
    IF k <= 0 THEN w
    ELSE IF k >= 27 THEN ShiftLeft(<<w[1] * B27 + w[2], 0>>, k - 27)
    ELSE <<w[1] * 2^k + (w[2] \div 2^(27 - k)), (w[2] % 2^(27 - k)) * 2^k>>

\* <<hi, lo, sticky>>: the number shifted right by k bits; sticky is 1 when
\* a bit that is 1 was shifted out, now or before
RECURSIVE ShiftRight(_, _)
ShiftRight(g, k) ==
    IF k <= 0 \/ (g[1] = 0 /\ g[2] = 0) THEN g
    ELSE IF k >= 27
         THEN ShiftRight(<<g[1] \div B27, g[1] % B27, IF g[2] # 0 THEN 1 ELSE g[3]>>,
                         k - 27)
    ELSE <<g[1] \div 2^k, (g[2] \div 2^k) + (g[1] % 2^k) * 2^(27 - k),
           IF g[2] % 2^k # 0 THEN 1 ELSE g[3]>>

WLess(a, b) == a[1] < b[1] \/ (a[1] = b[1] /\ a[2] < b[2])
WAdd(a, b) == <<a[1] + b[1] + ((a[2] + b[2]) \div B27), (a[2] + b[2]) % B27>>
WSub(a, b) ==
    IF a[2] >= b[2] THEN <<a[1] - b[1], a[2] - b[2]>>
    ELSE <<a[1] - b[1] - 1, a[2] + B27 - b[2]>>

\* g = <<hi, lo, sticky>> holds 53 bits and a guard bit of a magnitude
\* g * 2^(e2 - 1): round to nearest, ties to even
PackRound(s, g, e2) ==
    LET m1 == <<g[1] \div 2, (g[2] \div 2) + (g[1] % 2) * B26>>
        up == g[2] % 2 = 1 /\ (g[3] = 1 \/ (g[2] \div 2) % 2 = 1)
        m2 == IF ~up THEN m1
              ELSE IF m1[2] + 1 = B27 THEN <<m1[1] + 1, 0>>
              ELSE <<m1[1], m1[2] + 1>>
    IN  IF m2 = <<0, 0>> THEN <<s, EMin, 0, 0>>
        ELSE IF m2[1] = B26
             THEN IF e2 + 1 > 971 THEN Infinity(s) ELSE <<s, e2 + 1, B25, 0>>
        ELSE IF e2 > 971 THEN Infinity(s)
        ELSE <<s, e2, m2[1], m2[2]>>

\* w of L bits is shifted left by left bits, then right to 54 bits or to the
\* least exponent
PackShift(s, w, st, E, L, left) ==
    LET w1 == ShiftLeft(w, left)
        right == Max(0, Max(L + left - 54, (0 - 1075) - (E - left)))
    IN  PackRound(s, ShiftRight(<<w1[1], w1[2], st>>, right), E - left + right + 1)

PackLen(s, w, st, E, L) == PackShift(s, w, st, E, L, Max(0, Min(54 - L, E + 1075)))

\* the double nearest to (-1)^s * (w + st') * 2^E, where w = <<hi, lo>> is an
\* integer below 2^54 and st = 1 says that a fraction 0 < st' < 1 was cut off
Pack(s, w, st, E) ==
    IF w = <<0, 0>> THEN <<s, EMin, 0, 0>>
    ELSE PackLen(s, w, st, E, WBitLen(w))

Num(n) ==
    LET m == IF n < 0 THEN 0 - n ELSE n
    IN  Pack(IF n < 0 THEN 1 ELSE 0, <<m \div B27, m % B27>>, 0, 0)

Neg(a) == IF IsNaN(a) THEN a ELSE <<1 - a[1], a[2], a[3], a[4]>>

MagLess(a, b) ==
    \/ a[2] < b[2]
    \/ a[2] = b[2] /\ WLess(<<a[3], a[4]>>, <<b[3], b[4]>>)

NumLt(a, b) ==
    /\ ~IsNaN(a)
    /\ ~IsNaN(b)
    /\ ~(IsZero(a) /\ IsZero(b))
    /\ IF a[1] # b[1] THEN a[1] = 1
       ELSE IF a[1] = 0 THEN MagLess(a, b) ELSE MagLess(b, a)
NumGt(a, b) == NumLt(b, a)
NumEq(a, b) == ~IsNaN(a) /\ ~IsNaN(b) /\ (a = b \/ (IsZero(a) /\ IsZero(b)))
NumLeq(a, b) == NumLt(a, b) \/ NumEq(a, b)
NumGeq(a, b) == NumLeq(b, a)

\* |x| + |y| or |x| - |y| for finite non-zero x, y with x[2] >= y[2]; A is the
\* mantissa of x and B that of y aligned to it, each with three more bits, st
\* says that bits of y were shifted out
NumAddAligned(x, y, A, B, st) ==
    LET same == x[1] = y[1]
        less == WLess(A, B)
    IN  IF ~same /\ A = B /\ st = 0 THEN Zero
        ELSE Pack(IF same \/ ~less THEN x[1] ELSE y[1],
                  IF same THEN WAdd(A, B)
                  ELSE IF less THEN WSub(B, A)
                  ELSE IF st = 0 THEN WSub(A, B)
                  ELSE WSub(WSub(A, B), <<0, 1>>),
                  IF ~same /\ less THEN 0 ELSE st,
                  x[2] - 3)

NumAddOrdered(x, y) ==
    LET y8 == ShiftLeft(<<y[3], y[4]>>, 3)
        g == ShiftRight(<<y8[1], y8[2], 0>>, x[2] - y[2])
    IN  NumAddAligned(x, y, ShiftLeft(<<x[3], x[4]>>, 3), <<g[1], g[2]>>, g[3])

NumAdd(a, b) ==
    IF IsNaN(a) \/ IsNaN(b) THEN NaN
    ELSE IF IsInfinite(a) THEN (IF IsInfinite(b) /\ a[1] # b[1] THEN NaN ELSE a)
    ELSE IF IsInfinite(b) THEN b
    ELSE IF IsZero(a) /\ IsZero(b) THEN (IF a[1] = 1 /\ b[1] = 1 THEN NegZero ELSE Zero)
    ELSE IF IsZero(a) THEN b
    ELSE IF IsZero(b) THEN a
    ELSE NumAddOrdered(IF a[2] >= b[2] THEN a ELSE b, IF a[2] >= b[2] THEN b ELSE a)

NumSub(a, b) == NumAdd(a, Neg(b))

\* the mantissa shifted to 53 bits and the exponent that goes with it
Normal(a) ==
    LET k == 53 - WBitLen(<<a[3], a[4]>>)
    IN  <<ShiftLeft(<<a[3], a[4]>>, k), a[2] - k>>

Limbs(w) ==
    <<w[2] % B14, (w[2] \div B14) + (w[1] % 2) * 8192,
      (w[1] \div 2) % B14, w[1] \div 32768>>

\* the product of two mantissas of 53 bits given in limbs of 14 bits, times 2^E
NumMulLimbs(s, x, y, E) ==
    LET p0 == x[1] * y[1]
        p1 == x[1] * y[2] + x[2] * y[1] + (p0 \div B14)
        p2 == x[1] * y[3] + x[2] * y[2] + x[3] * y[1] + (p1 \div B14)
        p3 == x[1] * y[4] + x[2] * y[3] + x[3] * y[2] + x[4] * y[1] + (p2 \div B14)
        p4 == x[2] * y[4] + x[3] * y[3] + x[4] * y[2] + (p3 \div B14)
        p5 == x[3] * y[4] + x[4] * y[3] + (p4 \div B14)
        p6 == x[4] * y[4] + (p5 \div B14)
        c3 == p3 % B14
        c4 == p4 % B14
        c5 == p5 % B14
        c6 == p6 % B14
        c7 == p6 \div B14
        lo == (c3 \div 128) + c4 * 128 + (c5 % 64) * 2097152
        hi == (c5 \div 64) + c6 * 256 + c7 * 4194304
        st == IF c3 % 128 # 0 \/ p2 % B14 # 0 \/ p1 % B14 # 0 \/ p0 % B14 # 0
              THEN 1 ELSE 0
    IN  Pack(s, <<hi, lo>>, st, E)

NumMulNormal(s, na, nb) ==
    NumMulLimbs(s, Limbs(na[1]), Limbs(nb[1]), na[2] + nb[2] + 49)

NumMul(a, b) ==
    LET s == IF a[1] = b[1] THEN 0 ELSE 1
    IN  IF IsNaN(a) \/ IsNaN(b) THEN NaN
        ELSE IF IsInfinite(a) \/ IsInfinite(b)
             THEN (IF IsZero(a) \/ IsZero(b) THEN NaN ELSE Infinity(s))
        ELSE IF IsZero(a) \/ IsZero(b) THEN <<s, EMin, 0, 0>>
        ELSE NumMulNormal(s, Normal(a), Normal(b))

\* r - d as often as it fits: <<q plus the number of times, remainder>>
RECURSIVE DivFix(_, _, _)
DivFix(r, d, q) == IF WLess(r, d) THEN <<q, r>> ELSE DivFix(WSub(r, d), d, q + 1)

\* r * 2^14 - q * d for r < d and q no more than the quotient, r and d in
\* limbs of 14 bits: the difference as <<hi, lo>>
DivRest(rl, dl, q) ==
    LET c0 == 0 - q * dl[1]
        c1 == rl[1] - q * dl[2] + (c0 \div B14)
        c2 == rl[2] - q * dl[3] + (c1 \div B14)
        c3 == rl[3] - q * dl[4] + (c2 \div B14)
        c4 == rl[4] + (c3 \div B14)
    IN  <<((c1 % B14) \div 8192) + (c2 % B14) * 2 + (c3 % B14) * 32768 + c4 * 536870912,
          (c0 % B14) + ((c1 % B14) % 8192) * B14>>

\* the next 14 quotient bits of r / d for r < d, d of 53 bits: the digit is
\* estimated from the leading bits, never too high, and then made exact
DivEstimate(r, d, dl, q) == DivFix(DivRest(Limbs(r), dl, q), d, q)
DivDigit(r, d, dl) ==
    DivEstimate(r, d, dl, (r[1] * 16 + (r[2] \div 8388608)) \div ((d[1] \div 1024) + 1))

\* n more digits of 14 bits of the quotient of r / d, appended to acc:
\* <<digits, remainder>>
RECURSIVE DivDigits(_, _, _, _, _)
DivAppend(qr, d, dl, n, acc) == DivDigits(qr[2], d, dl, n - 1, Append(acc, qr[1]))
DivDigits(r, d, dl, n, acc) ==
    IF n = 0 THEN <<acc, r>> ELSE DivAppend(DivDigit(r, d, dl), d, dl, n, acc)

\* qs = <<the integer bit and four digits of 14 bits, remainder>> of the
\* quotient of two mantissas of 53 bits: 57 quotient bits, rounded by Pack
NumDivDigits(s, q, rest, E) ==
    Pack(s, <<q[1] * 536870912 + q[2] * 32768 + q[3] * 2 + (q[4] \div 8192),
              (q[4] % 8192) * B14 + q[5]>>,
         IF rest = <<0, 0>> THEN 0 ELSE 1, E)

NumDivFrom(s, qs, E) == NumDivDigits(s, qs[1], qs[2], E)

NumDivBit(s, n, d, bit, E) ==
    NumDivFrom(s, DivDigits(IF bit = 1 THEN WSub(n, d) ELSE n, d, Limbs(d), 4, <<bit>>), E)

NumDivNormal(s, na, nb) ==
    NumDivBit(s, na[1], nb[1], IF WLess(na[1], nb[1]) THEN 0 ELSE 1, na[2] - nb[2] - 56)

NumDiv(a, b) ==
    LET s == IF a[1] = b[1] THEN 0 ELSE 1
    IN  IF IsNaN(a) \/ IsNaN(b) THEN NaN
        ELSE IF IsInfinite(a) THEN (IF IsInfinite(b) THEN NaN ELSE Infinity(s))
        ELSE IF IsInfinite(b) THEN <<s, EMin, 0, 0>>
        ELSE IF IsZero(b) THEN (IF IsZero(a) THEN NaN ELSE Infinity(s))
        ELSE IF IsZero(a) THEN <<s, EMin, 0, 0>>
        ELSE NumDivNormal(s, Normal(a), Normal(b))

MathMax(a, b) ==
    IF IsNaN(a) \/ IsNaN(b) THEN NaN
    ELSE IF IsZero(a) /\ IsZero(b) THEN (IF a[1] = 0 THEN a ELSE b)
    ELSE IF NumLt(a, b) THEN b ELSE a
MathMin(a, b) ==
    IF IsNaN(a) \/ IsNaN(b) THEN NaN
    ELSE IF IsZero(a) /\ IsZero(b) THEN (IF a[1] = 1 THEN a ELSE b)
    ELSE IF NumLt(b, a) THEN b ELSE a

\* n / d for integers n and d, as the code divides two counts
Ratio(n, d) == NumDiv(Num(n), Num(d))


(***************************************************************************)
(* Strings                                                                 *)
(***************************************************************************)
\* The letters of Basic Latin and Latin-1 that toLowerCase and toUpperCase
\* map one to one, in the same order in both tuples
UpperLetters ==
    <<"A","B","C","D","E","F","G","H","I","J","K","L","M",
      "N","O","P","Q","R","S","T","U","V","W","X","Y","Z",
      "À","Á","Â","Ã","Ä","Å","Æ","Ç","È","É","Ê","Ë","Ì","Í","Î","Ï",
      "Ð","Ñ","Ò","Ó","Ô","Õ","Ö","Ø","Ù","Ú","Û","Ü","Ý","Þ">>
LowerLetters ==
    <<"a","b","c","d","e","f","g","h","i","j","k","l","m",
      "n","o","p","q","r","s","t","u","v","w","x","y","z",
      "à","á","â","ã","ä","å","æ","ç","è","é","ê","ë","ì","í","î","ï",
      "ð","ñ","ò","ó","ô","õ","ö","ø","ù","ú","û","ü","ý","þ">>

\* Code units without a case mapping: digits, white space, punctuation
Caseless ==
    {"0","1","2","3","4","5","6","7","8","9",
     " ","\t","\n","\r","\f","!","\"","#","$","%","&","'","(",")","*","+",",","-",
     ".","/",":",";","<","=",">","?","@","[","\\","]","^","_","{","|","}","~",
     "¡","¢","£","¤","¥","¦","§","¨","©","ª","«","¬","®","¯","°","±","²","³","´",
     "¶","·","¸","¹","º","»","¼","½","¾","¿","×","÷",
     "U+000B","U+0060","U+00A0","U+00AD","U+0307"}

\* Code units whose mapping is not one to one inside the two tuples:
\* sharp s, y with diaeresis, the micro sign, dotted capital I, dotless i,
\* long s, the Kelvin sign, Greek capital and small mu, capital Y with
\* diaeresis
SharpS == "ß"
YDiaeresis == "ÿ"
Micro == "µ"
CapitalIDot == "U+0130"
DotlessI == "U+0131"
LongS == "U+017F"
Kelvin == "U+212A"
CapitalMu == "U+039C"
SmallMu == "U+03BC"
CapitalYDiaeresis == "U+0178"
CombiningDot == "U+0307"

\* The code units the model knows the case mappings of
Alphabet ==
    {UpperLetters[k] : k \in 1..Len(UpperLetters)}
        \cup {LowerLetters[k] : k \in 1..Len(LowerLetters)}
        \cup Caseless
        \cup {SharpS, YDiaeresis, Micro, CapitalIDot, DotlessI, LongS, Kelvin,
              CapitalMu, SmallMu, CapitalYDiaeresis}

IndexIn(q, c) == CHOOSE k \in 1..Len(q) : q[k] = c
OccursIn(q, c) == \E k \in 1..Len(q) : q[k] = c

\* The lower-case mapping of one code unit of Alphabet: the code units that
\* replace it (Unicode default case conversion, which String.prototype.
\* toLowerCase applies)
LowerChar(c) ==
    IF OccursIn(UpperLetters, c) THEN <<LowerLetters[IndexIn(UpperLetters, c)]>>
    ELSE CASE c = CapitalIDot -> <<"i", CombiningDot>>
           [] c = Kelvin -> <<"k">>
           [] c = CapitalMu -> <<SmallMu>>
           [] c = CapitalYDiaeresis -> <<YDiaeresis>>
           [] c \in Alphabet \ {CapitalIDot, Kelvin, CapitalMu, CapitalYDiaeresis} -> <<c>>

\* The upper-case mapping of one code unit of Alphabet (String.prototype.
\* toUpperCase)
UpperChar(c) ==
    IF OccursIn(LowerLetters, c) THEN <<UpperLetters[IndexIn(LowerLetters, c)]>>
    ELSE CASE c = SharpS -> <<"S", "S">>
           [] c = YDiaeresis -> <<CapitalYDiaeresis>>
           [] c = Micro -> <<CapitalMu>>
           [] c = SmallMu -> <<CapitalMu>>
           [] c = DotlessI -> <<"I">>
           [] c = LongS -> <<"S">>
           [] c \in Alphabet \ {SharpS, YDiaeresis, Micro, SmallMu, DotlessI, LongS} -> <<c>>

\* the concatenation of the sequences of q
RECURSIVE Concat(_)
Concat(q) == IF q = <<>> THEN <<>> ELSE Head(q) \o Concat(Tail(q))

toLowerCase(s) == Concat([k \in 1..Len(s) |-> LowerChar(s[k])])
toUpperCase(s) == Concat([k \in 1..Len(s) |-> UpperChar(s[k])])

\* s.charAt(0): the first code unit, or the empty string
charAt0(s) == IF Len(s) = 0 THEN <<>> ELSE <<s[1]>>

\* s.slice(1)
slice1(s) == IF Len(s) = 0 THEN <<>> ELSE Tail(s)

\* s.includes(sub)
includes(s, sub) ==
    \E k \in 0..(Len(s) - Len(sub)) : SubSeq(s, k + 1, k + Len(sub)) = sub

(***************************************************************************)
(* Labels                                                                  *)
(***************************************************************************)
\* The closed set Defect['type'] of types.ts, which the response schema of
\* the detector enumerates (geminiService.ts line 75)
TPothole == <<"P","o","t","h","o","l","e">>
TRutting == <<"R","u","t","t","i","n","g">>
TAlligatorCrack == <<"A","l","l","i","g","a","t","o","r"," ","C","r","a","c","k">>
TRoughness == <<"R","o","u","g","h","n","e","s","s">>
TDistress == <<"D","i","s","t","r","e","s","s">>
TLongitudinalCrack == <<"L","o","n","g","i","t","u","d","i","n","a","l"," ","C","r","a","c","k">>
TTransverseCrack == <<"T","r","a","n","s","v","e","r","s","e"," ","C","r","a","c","k">>
TBlockCrack == <<"B","l","o","c","k"," ","C","r","a","c","k">>

DefectTypes ==
    {TPothole, TRutting, TAlligatorCrack, TRoughness, TDistress,
     TLongitudinalCrack, TTransverseCrack, TBlockCrack}

\* The literals of normalizeAiType
LitCrackLower == <<"c","r","a","c","k">>
LitPotholeLower == <<"p","o","t","h","o","l","e">>
LitCrack == <<"C","r","a","c","k">>
LitPothole == <<"P","o","t","h","o","l","e">>

\* Free-form labels of an annotation file (GroundTruthDefect.type is a string)
GPotholeLower == <<"p","o","t","h","o","l","e">>
GPotholeUpper == <<"P","O","T","H","O","L","E">>
GCrackUpper == <<"C","R","A","C","K">>
GCrackLower == <<"c","r","a","c","k">>
GAlligatorCrackLower == <<"a","l","l","i","g","a","t","o","r"," ","c","r","a","c","k">>
GRuttingMixed == <<"r","U","T","T","I","N","G">>
GDigit == <<"d","0","0">>
GEmpty == <<>>
\* labels outside Basic Latin: "éclat", "ÉCLAT", "ßeta"
GEclatLower == <<"é","c","l","a","t">>
GEclatUpper == <<"É","C","L","A","T">>
GSharpS == <<"ß","e","t","a">>
\* the label "__proto__"
ProtoKey == <<"_","_","p","r","o","t","o","_","_">>
GProtoUpper == <<"_","_","P","R","O","T","O","_","_">>

GtLabels ==
    {GPotholeLower, GPotholeUpper, GCrackUpper, GCrackLower, GAlligatorCrackLower,
     GRuttingMixed, GDigit, GEmpty, TPothole, TRutting, TAlligatorCrack,
     GEclatLower, GEclatUpper, GSharpS, ProtoKey, GProtoUpper}

(***************************************************************************)
(* calculateIou                                                            *)
(***************************************************************************)
Box(x1, y1, x2, y2) == [x_min |-> x1, y_min |-> y1, x_max |-> x2, y_max |-> y2]

\* (box.x_max - box.x_min) * (box.y_max - box.y_min)
AreaOf(box) == NumMul(NumSub(box.x_max, box.x_min), NumSub(box.y_max, box.y_min))

\* lines 23-25: the returned ratio
IouRatio(interArea, boxAArea, boxBArea) ==
    NumDiv(interArea, NumSub(NumAdd(boxAArea, boxBArea), interArea))

\* Variant of lines 15-25: the guard with && for ||
IouOfAndGuard(interWidth, interHeight, boxAArea, boxBArea) ==
    IF NumLeq(interWidth, Zero) /\ NumLeq(interHeight, Zero)
    THEN Zero
    ELSE IouRatio(NumMul(interWidth, interHeight), boxAArea, boxBArea)

\* lines 15-25: the guard, and the ratio of the intersection to the union
IouOf(interWidth, interHeight, boxAArea, boxBArea) ==
    IF NumLeq(interWidth, Zero) \/ NumLeq(interHeight, Zero)
    THEN Zero
    ELSE IouRatio(NumMul(interWidth, interHeight), boxAArea, boxBArea)

\* Variants of calculateIou with one slip each
calculateIouAndGuard(a, b) ==
    IouOfAndGuard(NumSub(MathMin(a.x_max, b.x_max), MathMax(a.x_min, b.x_min)),
                  NumSub(MathMin(a.y_max, b.y_max), MathMax(a.y_min, b.y_min)),
                  AreaOf(a), AreaOf(b))

calculateIouUnionA(a, b) ==
    IouOf(NumSub(MathMin(a.x_max, b.x_max), MathMax(a.x_min, b.x_min)),
          NumSub(MathMin(a.y_max, b.y_max), MathMax(a.y_min, b.y_min)),
          AreaOf(a), AreaOf(a))

\* validationUtils.ts lines 7-26
calculateIou(boxA, boxB) ==
    LET xA == MathMax(boxA.x_min, boxB.x_min)
        yA == MathMax(boxA.y_min, boxB.y_min)
        xB == MathMin(boxA.x_max, boxB.x_max)
        yB == MathMin(boxA.y_max, boxB.y_max)
    IN  IouOf(NumSub(xB, xA), NumSub(yB, yA), AreaOf(boxA), AreaOf(boxB))

(***************************************************************************)
(* Label normalization                                                     *)
(***************************************************************************)
\* Variant: the substring tests on the label as given, not lower-cased
normalizeAiTypeCaseSensitive(type) ==
    IF includes(type, LitCrackLower) THEN LitCrack
    ELSE IF includes(type, LitPotholeLower) THEN LitPothole
    ELSE type

\* lines 32-38
normalizeAiType(type) ==
    LET lowerType == toLowerCase(type)
    IN  IF includes(lowerType, LitCrackLower) THEN LitCrack
        ELSE IF includes(lowerType, LitPotholeLower) THEN LitPothole
        ELSE type

\* d.type.charAt(0).toUpperCase() + d.type.slice(1).toLowerCase(), written out
\* in the code at each of the four places a reference label is used
\* (lines 73, 84, 94, 120)
gtClassOfSet(type) == toUpperCase(charAt0(type)) \o toLowerCase(slice1(type))
gtClassOfTotal(type) == toUpperCase(charAt0(type)) \o toLowerCase(slice1(type))
gtClassOfMatch(type) == toUpperCase(charAt0(type)) \o toLowerCase(slice1(type))
\* Variant: the false-negative pass looks the label up as given
gtClassOfMissRaw(type) == type

gtClassOfMiss(type) == toUpperCase(charAt0(type)) \o toLowerCase(slice1(type))

(***************************************************************************)
(* calculatePrf, lines 43-48, on the counts the code passes                *)
(***************************************************************************)
\* precision + recall > 0 ? 2 * (precision * recall) / (precision + recall) : 0
F1Of(precision, recall) ==
    IF NumGt(NumAdd(precision, recall), Zero)
    THEN NumDiv(NumMul(Num(2), NumMul(precision, recall)), NumAdd(precision, recall))
    ELSE Zero

\* line 47: the returned object
PrfOf(precision, recall, f1Score) ==
    [precision |-> precision, recall |-> recall, f1Score |-> f1Score]

\* lines 46-47
PrfFrom(precision, recall) == PrfOf(precision, recall, F1Of(precision, recall))

\* Variant: precision without the zero-denominator rule
calculatePrfUnguarded(tp, fp, fn) ==
    PrfFrom(Ratio(tp, tp + fp), IF tp + fn > 0 THEN Ratio(tp, tp + fn) ELSE Zero)

\* Variant: f1Score without the zero-denominator rule
F1OfUnguarded(precision, recall) ==
    NumDiv(NumMul(Num(2), NumMul(precision, recall)), NumAdd(precision, recall))

PrfFromF1Unguarded(precision, recall) ==
    PrfOf(precision, recall, F1OfUnguarded(precision, recall))

calculatePrfF1Unguarded(tp, fp, fn) ==
    PrfFromF1Unguarded(IF tp + fp > 0 THEN Ratio(tp, tp + fp) ELSE Zero,
                       IF tp + fn > 0 THEN Ratio(tp, tp + fn) ELSE Zero)

calculatePrf(tp, fp, fn) ==
    PrfFrom(IF tp + fp > 0 THEN Ratio(tp, tp + fp) ELSE Zero,
            IF tp + fn > 0 THEN Ratio(tp, tp + fn) ELSE Zero)

(***************************************************************************)
(* Inputs                                                                  *)
(***************************************************************************)
\* The number literal k/10 (0.1, 0.2, ...): the double nearest to it
Tenth(k) == Ratio(k, 10)

\* Boxes in percentage coordinates: BoxFull is the square of side 0.2 at the
\* origin, BoxLow and BoxHigh are its lower and upper halves.  In doubles
\* calculateIou gives 0.5 for BoxFull against either half and 0 for the two
\* halves, which touch on an edge
BoxFull == Box(Zero, Zero, Tenth(2), Tenth(2))
BoxLow == Box(Zero, Zero, Tenth(2), Tenth(1))
BoxHigh == Box(Zero, Tenth(1), Tenth(2), Tenth(2))

Defect(t, b) == [type |-> t, boundingBox |-> b]

\* Detections of the external detector
AiPool ==
    {Defect(TPothole, BoxFull), Defect(TPothole, BoxHigh),
     Defect(TAlligatorCrack, BoxFull), Defect(TRutting, BoxFull)}

\* Annotations of the external annotation file
GtPool ==
    {Defect(GPotholeLower, BoxFull), Defect(GPotholeUpper, BoxLow),
     Defect(GCrackUpper, BoxFull)}

\* iouThreshold: the default 0.5, the ends of [0,1], and a value below every IoU
DefaultThreshold == Ratio(1, 2)
Thresholds == {Num(0 - 1), Zero, DefaultThreshold, Num(1)}

SeqsUpTo(S, n) == UNION {[1..k -> S] : k \in 0..n}

\* Every box with corners on the grid of tenths, malformed ones included
GridBoxes ==
    {Box(Tenth(x1), Tenth(y1), Tenth(x2), Tenth(y2)) :
        x1 \in 0..GridMax, y1 \in 0..GridMax, x2 \in 0..GridMax, y2 \in 0..GridMax}

\* 2^-600, and the square of that side at the origin: its area, 2^-1200, is
\* below the least positive double
TinySide == <<0, 0 - 652, B25, 0>>
TinyBox == Box(Zero, Zero, TinySide, TinySide)

(***************************************************************************)
(* Objects used as Record<string, ...>                                     *)
(***************************************************************************)
\* Object.prototype, the prototype of an object literal
ObjectPrototype == [objectPrototype |-> TRUE]
NoValue == <<"undefined">>
Undefined == [undefined |-> TRUE]

\* {} : no own property
NewObject == [own |-> <<>>, proto |-> ObjectPrototype]

\* obj[key] = val for an object val: the key "__proto__" is the accessor of
\* Object.prototype and replaces the prototype of obj; any other key
\* creates or overwrites an own property
SetProp(obj, key, val) ==
    IF key = ProtoKey THEN [obj EXCEPT !.proto = val]
    ELSE [obj EXCEPT !.own = [k \in (DOMAIN obj.own) \cup {key} |->
                                 IF k = key THEN val ELSE obj.own[k]]]

\* obj[key] for a key the code has assigned or for "__proto__": the own
\* property, or the prototype.  (No run of the code reads a key it has not
\* assigned: lines 78-86 assign every class first.)
GetProp(obj, key) ==
    IF key = ProtoKey THEN obj.proto
    ELSE IF key \in DOMAIN obj.own THEN obj.own[key]
    ELSE Undefined

\* Object.keys(obj): the own enumerable string keys
ObjectKeys(obj) == DOMAIN obj.own

(***************************************************************************)
(* State                                                                   *)
(***************************************************************************)
VARIABLES
    aiDefects,         \* argument: the detections, in the detector's order
    gtDefects,         \* argument: the reference annotations
    iouThreshold,      \* argument
    pc,                \* position in compareDetections
    aiIndex,           \* number of detections the first forEach has processed
    matchedGtIndices,  \* Set<number> of consumed reference indices (0-based)
    perClassData,      \* Record<string, {tp, fp, fn, iouSum, totalGroundTruth}>
    bestMatches,       \* the final bestMatch of each processed detection
    metrics,           \* the returned ValidationMetrics
    boxA, boxB,        \* arguments of a call of calculateIou
    iou,               \* its return value
    calls,             \* the calls of compareDetections that have returned:
                       \* their arguments and return values, oldest first
    gpxContent,        \* argument of parseGpx: the <trkpt> elements of the file
    track,             \* GpxPoint[]: the return value of parseGpx, the
                       \* argument of interpolateLocation
    timestamp,         \* argument of interpolateLocation (seconds)
    videoStartTime,    \* argument of interpolateLocation (ms)
    location,          \* return value of interpolateLocation
    counts,            \* arguments tp, fp, fn of a call of calculatePrf
    prfOut,            \* its return value
    status,            \* VideoAnalysis state: 'idle' | 'processing' | 'done' | 'error'
    statusBy,          \* the run whose setStatus wrote status, 0 for a handler
    results,           \* VideoAnalysis state: for each defect, the run that
                       \* appended it
    isCancelledRef,    \* useCancellableProcess: isCancelledRef.current
    mounted,           \* the component is mounted
    video,             \* the hidden <video>: the run whose closures are its
                       \* onloadedmetadata, onseeked and onerror handlers, and
                       \* the operation it is performing
    runs               \* the invocations of handleAnalyze, oldest first

trackVars == <<gpxContent, track, timestamp, videoStartTime, location>>
prfVars == <<counts, prfOut>>
analysisVars == <<status, statusBy, results, isCancelledRef, mounted, video, runs>>

vars == <<aiDefects, gtDefects, iouThreshold, pc, aiIndex, matchedGtIndices,
          perClassData, bestMatches, metrics, boxA, boxB, iou, calls, trackVars, prfVars, analysisVars>>

\* no call of parseGpx or interpolateLocation
NoTrack ==
    /\ gpxContent = NoValue
    /\ track = <<>>
    /\ timestamp = Zero
    /\ videoStartTime = Zero
    /\ location = Undefined

\* no call of calculatePrf on its own
NoPrf ==
    /\ counts = NoValue
    /\ prfOut = NoValue

\* no VideoAnalysis component
NoAnalysis ==
    /\ status = "idle"
    /\ statusBy = 0
    /\ results = <<>>
    /\ isCancelledRef = FALSE
    /\ mounted = FALSE
    /\ video = [onloadedmetadata |-> 0, onseeked |-> 0, onerror |-> 0, pending |-> "none"]
    /\ runs = <<>>

(***************************************************************************)
(* compareDetections                                                       *)
(***************************************************************************)
\* new Set(q): the distinct elements of q in the order of their first
\* occurrence
RECURSIVE NewSet(_)
NewSet(q) ==
    IF q = <<>> THEN <<>>
    ELSE LET r == NewSet(SubSeq(q, 1, Len(q) - 1))
             last == q[Len(q)]
         IN  IF OccursIn(r, last) THEN r ELSE Append(r, last)

\* lines 73-75
gtClasses(gts) == NewSet([k \in 1..Len(gts) |-> gtClassOfSet(gts[k].type)])
aiClasses(ais) == NewSet([k \in 1..Len(ais) |-> normalizeAiType(ais[k].type)])
\* Variant: the class set built from the references only
allClassesGtOnly(ais, gts) == gtClasses(gts)

allClasses(ais, gts) == NewSet(gtClasses(gts) \o aiClasses(ais))

\* line 84
totalGroundTruthOf(gts, className) ==
    Cardinality({k \in 1..Len(gts) : gtClassOfTotal(gts[k].type) = className})

\* lines 79-85: the accumulator of a class
NewClassData(gts, className) ==
    [tp |-> 0, fp |-> 0, fn |-> 0, iouSum |-> Zero,
     totalGroundTruth |-> totalGroundTruthOf(gts, className)]

\* lines 111 and 121: if (perClassData[key]).  Every object is truthy,
\* Object.prototype (read through "__proto__") included; undefined is falsy
Assigned(obj, key) == GetProp(obj, key) # Undefined

\* lines 78-86 from class k of classes on
RECURSIVE InitFrom(_, _, _, _)
InitFrom(obj, classes, k, gts) ==
    IF k > Len(classes) THEN obj
    ELSE InitFrom(SetProp(obj, classes[k], NewClassData(gts, classes[k])),
                  classes, k + 1, gts)

RECURSIVE InitFromKept(_, _, _, _)
InitFromKept(obj, classes, k, gts) ==
    IF k > Len(classes) THEN obj
    ELSE InitFromKept(IF GetProp(obj, classes[k]) \notin {Undefined, ObjectPrototype}
                      THEN obj
                      ELSE SetProp(obj, classes[k], NewClassData(gts, classes[k])),
                      classes, k + 1, gts)

\* Variant: the accumulators outlive the call (a module-level perClassData)
InitPerClassDataKept(ais, gts) ==
    InitFromKept(perClassData, allClasses(ais, gts), 1, gts)

\* lines 63-69 and 78-86
InitPerClassData(ais, gts) == InitFrom(NewObject, allClasses(ais, gts), 1, gts)

\* Variant: the first candidate reference is kept, whatever its IoU
RECURSIVE BestMatchFirst(_, _, _, _, _, _)
BestMatchFirst(aiDefect, aiType, gts, matched, gtIndex, bestMatch) ==
    IF gtIndex >= Len(gts) THEN bestMatch
    ELSE LET gtDefect == gts[gtIndex + 1]
             gtType == gtClassOfMatch(gtDefect.type)
             cand == calculateIou(aiDefect.boundingBox, gtDefect.boundingBox)
             next == IF gtIndex \notin matched /\ gtType = aiType
                        /\ bestMatch.gtIndex < 0
                     THEN [iou |-> cand, gtIndex |-> gtIndex]
                     ELSE bestMatch
         IN  BestMatchFirst(aiDefect, aiType, gts, matched, gtIndex + 1, next)

\* Variant: bestMatch is replaced by an equal IoU too (the last of a tie wins)
RECURSIVE BestMatchLastTie(_, _, _, _, _, _)
BestMatchLastTie(aiDefect, aiType, gts, matched, gtIndex, bestMatch) ==
    IF gtIndex >= Len(gts) THEN bestMatch
    ELSE LET gtDefect == gts[gtIndex + 1]
             gtType == gtClassOfMatch(gtDefect.type)
             cand == calculateIou(aiDefect.boundingBox, gtDefect.boundingBox)
             next == IF gtIndex \notin matched /\ gtType = aiType
                        /\ NumGeq(cand, bestMatch.iou)
                     THEN [iou |-> cand, gtIndex |-> gtIndex]
                     ELSE bestMatch
         IN  BestMatchLastTie(aiDefect, aiType, gts, matched, gtIndex + 1, next)

\* lines 93-102: the inner forEach from reference index gtIndex on, in order;
\* bestMatch is replaced only by a strictly greater IoU (iou > bestMatch.iou,
\* false when iou is NaN)
RECURSIVE BestMatchFrom(_, _, _, _, _, _)
BestMatchFrom(aiDefect, aiType, gts, matched, gtIndex, bestMatch) ==
    IF gtIndex >= Len(gts) THEN bestMatch
    ELSE LET gtDefect == gts[gtIndex + 1]
             gtType == gtClassOfMatch(gtDefect.type)
             cand == calculateIou(aiDefect.boundingBox, gtDefect.boundingBox)
             next == IF gtIndex \notin matched /\ gtType = aiType
                        /\ NumGt(cand, bestMatch.iou)
                     THEN [iou |-> cand, gtIndex |-> gtIndex]
                     ELSE bestMatch
         IN  BestMatchFrom(aiDefect, aiType, gts, matched, gtIndex + 1, next)

\* Variant: a strict comparison with the threshold
MeetsThresholdStrict(bestIou, threshold) == NumGt(bestIou, threshold)

\* line 104: bestMatch.iou >= iouThreshold
MeetsThreshold(bestIou, threshold) == NumGeq(bestIou, threshold)

\* lines 90-102
BestMatch(aiDefect, gts, matched) ==
    BestMatchFrom(aiDefect, normalizeAiType(aiDefect.type), gts, matched, 0,
                  [iou |-> Num(0 - 1), gtIndex |-> 0 - 1])

\* Variant: the consumed set outlives the call (a module-level Set)
StartKeepsMatched ==
    /\ pc = "start"
    /\ perClassData' = InitPerClassData(aiDefects, gtDefects)
    /\ pc' = "match"
    /\ UNCHANGED <<aiDefects, gtDefects, iouThreshold, aiIndex, bestMatches,
                   matchedGtIndices, metrics, boxA, boxB, iou, calls, trackVars, prfVars, analysisVars>>

\* lines 62-86
Start ==
    /\ pc = "start"
    /\ perClassData' = InitPerClassData(aiDefects, gtDefects)
    /\ matchedGtIndices' = {}
    /\ pc' = "match"
    /\ UNCHANGED <<aiDefects, gtDefects, iouThreshold, aiIndex, bestMatches,
                   metrics, boxA, boxB, iou, calls, trackVars, prfVars, analysisVars>>

\* lines 106-107: perClassData[aiType].tp++ and .iouSum += bestMatch.iou
CountTruePositive(obj, key, bestIou) ==
    LET d == GetProp(obj, key)
    IN  SetProp(obj, key, [d EXCEPT !.tp = @ + 1, !.iouSum = NumAdd(@, bestIou)])

\* line 112: perClassData[aiType].fp++
CountFalsePositive(obj, key) ==
    LET d == GetProp(obj, key) IN SetProp(obj, key, [d EXCEPT !.fp = @ + 1])

\* lines 103-114: the detection is counted with its best match
MatchWith(aiType, bestMatch, known, isTp) ==
    /\ bestMatches' = Append(bestMatches, [iou |-> bestMatch.iou,
                                           gtIndex |-> bestMatch.gtIndex,
                                           tp |-> isTp])
    /\ IF isTp
       THEN IF known
            THEN /\ perClassData' =
                       CountTruePositive(perClassData, aiType, bestMatch.iou)
                 /\ matchedGtIndices' = matchedGtIndices \cup {bestMatch.gtIndex}
                 /\ pc' = "match"
            ELSE \* perClassData[aiType] is undefined: TypeError
                 /\ pc' = "threw"
                 /\ UNCHANGED <<perClassData, matchedGtIndices>>
       ELSE /\ perClassData' =
                  IF known
                  THEN CountFalsePositive(perClassData, aiType)
                  ELSE perClassData
            /\ pc' = "match"
            /\ UNCHANGED matchedGtIndices

\* lines 103-114, for the best match found
MatchBest(aiType, bestMatch) ==
    MatchWith(aiType, bestMatch, Assigned(perClassData, aiType),
              MeetsThreshold(bestMatch.iou, iouThreshold))

\* lines 89-115: one iteration of aiDefects.forEach
MatchDetection ==
    /\ pc = "match"
    /\ aiIndex < Len(aiDefects)
    /\ MatchBest(normalizeAiType(aiDefects[aiIndex + 1].type),
                 BestMatch(aiDefects[aiIndex + 1], gtDefects, matchedGtIndices))
    /\ aiIndex' = aiIndex + 1
    /\ UNCHANGED <<aiDefects, gtDefects, iouThreshold, metrics, boxA, boxB, iou,
                   calls, trackVars, prfVars, analysisVars>>

\* lines 118-125: the reference indices that add a false negative to the
\* accumulator perClassData[key]
MissedIn(gts, matched, key) ==
    {k \in 0..(Len(gts) - 1) : k \notin matched /\ gtClassOfMiss(gts[k + 1].type) = key}

\* perClassData[gtType].fn++ for each of the n unmatched references of key
CountFalseNegatives(d, n) == [d EXCEPT !.fn = @ + n]

\* lines 118-125
CountMisses ==
    /\ pc = "match"
    /\ aiIndex = Len(aiDefects)
    /\ perClassData' =
          [own |-> [key \in DOMAIN perClassData.own |->
                       CountFalseNegatives(perClassData.own[key],
                           Cardinality(MissedIn(gtDefects, matchedGtIndices, key)))],
           proto |-> IF perClassData.proto = ObjectPrototype
                     THEN ObjectPrototype
                     ELSE CountFalseNegatives(perClassData.proto,
                              Cardinality(MissedIn(gtDefects, matchedGtIndices, ProtoKey)))]
    /\ pc' = "metrics"
    /\ UNCHANGED <<aiDefects, gtDefects, iouThreshold, aiIndex, matchedGtIndices,
                   bestMatches, metrics, boxA, boxB, iou, calls, trackVars, prfVars, analysisVars>>

\* sums over a set of keys
RECURSIVE SumOver(_, _)
SumOver(f, S) ==
    IF S = {} THEN 0
    ELSE LET c == CHOOSE x \in S : TRUE IN f[c] + SumOver(f, S \ {c})

\* lines 136-140: the entry of a class
ClassMetricsFrom(d, prf) ==
    [tp |-> d.tp, fp |-> d.fp, fn |-> d.fn,
     precision |-> prf.precision, recall |-> prf.recall,
     f1Score |-> prf.f1Score, totalGroundTruth |-> d.totalGroundTruth]

\* lines 135-140
ClassMetricsOf(d) == ClassMetricsFrom(d, calculatePrf(d.tp, d.fp, d.fn))

\* lines 134-145, the loop over allClasses from class k on: the totals and
\* perClassMetrics after it
RECURSIVE TotalsFrom(_, _, _, _)
TotalsFrom(data, classes, k, acc) ==
    IF k > Len(classes) THEN acc
    ELSE LET d == GetProp(data, classes[k])
         IN  TotalsFrom(data, classes, k + 1,
                 [totalTp |-> acc.totalTp + d.tp,
                  totalFp |-> acc.totalFp + d.fp,
                  totalFn |-> acc.totalFn + d.fn,
                  totalIouSum |-> NumAdd(acc.totalIouSum, d.iouSum),
                  perClassMetrics |-> SetProp(acc.perClassMetrics, classes[k],
                                              ClassMetricsOf(d))])

\* lines 128-132
NoTotals ==
    [totalTp |-> 0, totalFp |-> 0, totalFn |-> 0, totalIouSum |-> Zero,
     perClassMetrics |-> NewObject]

\* lines 147-158: the returned object
MetricsFrom(t, overallMetrics) ==
    [matches |-> t.totalTp,
     misses |-> t.totalFn,
     falsePositives |-> t.totalFp,
     averageIou |-> IF t.totalTp > 0 THEN NumDiv(t.totalIouSum, Num(t.totalTp))
                    ELSE Zero,
     precision |-> overallMetrics.precision,
     recall |-> overallMetrics.recall,
     f1Score |-> overallMetrics.f1Score,
     perClassMetrics |-> t.perClassMetrics]

\* lines 147-158, from the totals of the loop
MetricsOfTotals(t) == MetricsFrom(t, calculatePrf(t.totalTp, t.totalFp, t.totalFn))

\* lines 128-158
ValidationMetrics(data, classes) == MetricsOfTotals(TotalsFrom(data, classes, 1, NoTotals))

ComputeMetrics ==
    /\ pc = "metrics"
    /\ metrics' = ValidationMetrics(perClassData, allClasses(aiDefects, gtDefects))
    /\ pc' = "done"
    /\ UNCHANGED <<aiDefects, gtDefects, iouThreshold, aiIndex, matchedGtIndices,
                   perClassData, bestMatches, boxA, boxB, iou, calls, trackVars, prfVars, analysisVars>>

\* compareDetections(aiDefects, gtDefects, iouThreshold)
compareDetections == Start \/ MatchDetection \/ CountMisses \/ ComputeMetrics

Init ==
    /\ aiDefects \in SeqsUpTo(AiPool, MaxAi)
    /\ gtDefects \in SeqsUpTo(GtPool, MaxGt)
    /\ iouThreshold \in Thresholds
    /\ pc = "start"
    /\ aiIndex = 0
    /\ matchedGtIndices = {}
    /\ perClassData = NewObject
    /\ bestMatches = <<>>
    /\ metrics = NoValue
    /\ boxA = NoValue
    /\ boxB = NoValue
    /\ iou = NoValue
    /\ calls = <<>>
    /\ NoTrack
    /\ NoPrf
    /\ NoAnalysis

Next == Start \/ MatchDetection \/ CountMisses \/ ComputeMetrics

Spec == Init /\ [][Next]_vars

(***************************************************************************)
(* One detection of any Defect type against one reference of any label,    *)
(* same box, default threshold: the call of part_000 line 184              *)
(***************************************************************************)
InitLabels ==
    /\ aiDefects \in {<<Defect(t, BoxFull)>> : t \in DefectTypes}
    /\ gtDefects \in {<<Defect(l, BoxFull)>> : l \in GtLabels}
    /\ iouThreshold = DefaultThreshold
    /\ pc = "start"
    /\ aiIndex = 0
    /\ matchedGtIndices = {}
    /\ perClassData = NewObject
    /\ bestMatches = <<>>
    /\ metrics = NoValue
    /\ boxA = NoValue
    /\ boxB = NoValue
    /\ iou = NoValue
    /\ calls = <<>>
    /\ NoTrack
    /\ NoPrf
    /\ NoAnalysis

SpecLabels == InitLabels /\ [][Next]_vars

(***************************************************************************)
(* Several calls of compareDetections, one after the other.  The locals    *)
(* of a returned call (matchedGtIndices, perClassData) are left as they    *)
(* were: the next call has to create its own (lines 62-69).                *)
(***************************************************************************)
CallAiLists ==
    [1..2 -> {Defect(TPothole, BoxFull), Defect(TPothole, BoxHigh)}]
CallGtLists ==
    {<<>>} \cup [1..1 -> {Defect(GPotholeLower, BoxFull), Defect(GPotholeLower, BoxLow)}]
        \cup {<<Defect(GPotholeLower, BoxFull), Defect(GPotholeLower, BoxLow)>>}

InitCalls ==
    /\ aiDefects \in CallAiLists
    /\ gtDefects \in CallGtLists
    /\ iouThreshold = DefaultThreshold
    /\ pc = "start"
    /\ aiIndex = 0
    /\ matchedGtIndices = {}
    /\ perClassData = NewObject
    /\ bestMatches = <<>>
    /\ metrics = NoValue
    /\ boxA = NoValue
    /\ boxB = NoValue
    /\ iou = NoValue
    /\ calls = <<>>
    /\ NoTrack
    /\ NoPrf
    /\ NoAnalysis

\* the call returns; the caller calls compareDetections again
CallAgain ==
    /\ pc = "done"
    /\ Len(calls) + 1 < MaxCalls
    /\ calls' = Append(calls, [aiDefects |-> aiDefects, gtDefects |-> gtDefects,
                               iouThreshold |-> iouThreshold, metrics |-> metrics])
    /\ aiDefects' \in CallAiLists
    /\ gtDefects' \in CallGtLists
    /\ pc' = "start"
    /\ aiIndex' = 0
    /\ bestMatches' = <<>>
    /\ metrics' = NoValue
    /\ UNCHANGED <<iouThreshold, matchedGtIndices, perClassData, boxA, boxB, iou,
                   trackVars, prfVars, analysisVars>>

NextCalls == Start \/ MatchDetection \/ CountMisses \/ ComputeMetrics \/ CallAgain

SpecCalls == InitCalls /\ [][NextCalls]_vars

(***************************************************************************)
(* calculateIou on every pair of grid boxes and of a box whose area        *)
(* underflows                                                              *)
(***************************************************************************)
InitIou ==
    /\ boxA \in GridBoxes \cup {TinyBox}
    /\ boxB \in GridBoxes \cup {TinyBox}
    /\ iou = NoValue
    /\ pc = "iou"
    /\ aiDefects = <<>>
    /\ gtDefects = <<>>
    /\ iouThreshold = DefaultThreshold
    /\ aiIndex = 0
    /\ matchedGtIndices = {}
    /\ perClassData = NewObject
    /\ bestMatches = <<>>
    /\ metrics = NoValue
    /\ calls = <<>>
    /\ NoTrack
    /\ NoPrf
    /\ NoAnalysis

CallCalculateIou ==
    /\ pc = "iou"
    /\ iou' = calculateIou(boxA, boxB)
    /\ pc' = "iouDone"
    /\ UNCHANGED <<aiDefects, gtDefects, iouThreshold, aiIndex, matchedGtIndices,
                   perClassData, bestMatches, metrics, boxA, boxB, calls, trackVars, prfVars, analysisVars>>

NextIou == CallCalculateIou

SpecIou == InitIou /\ [][NextIou]_vars

(***************************************************************************)
(* calculatePrf on every triple of counts up to MaxCount                   *)
(***************************************************************************)
InitPrf ==
    /\ counts \in [tp : 0..MaxCount, fp : 0..MaxCount, fn : 0..MaxCount]
    /\ prfOut = NoValue
    /\ pc = "prf"
    /\ aiDefects = <<>>
    /\ gtDefects = <<>>
    /\ iouThreshold = DefaultThreshold
    /\ aiIndex = 0
    /\ matchedGtIndices = {}
    /\ perClassData = NewObject
    /\ bestMatches = <<>>
    /\ metrics = NoValue
    /\ boxA = NoValue
    /\ boxB = NoValue
    /\ iou = NoValue
    /\ calls = <<>>
    /\ NoTrack
    /\ NoAnalysis

CallCalculatePrf ==
    /\ pc = "prf"
    /\ prfOut' = calculatePrf(counts.tp, counts.fp, counts.fn)
    /\ pc' = "prfDone"
    /\ UNCHANGED <<aiDefects, gtDefects, iouThreshold, aiIndex, matchedGtIndices,
                   perClassData, bestMatches, metrics, boxA, boxB, iou, calls,
                   trackVars, counts, analysisVars>>

NextPrf == CallCalculatePrf

SpecPrf == InitPrf /\ [][NextPrf]_vars

(***************************************************************************)
(* parseFloat                                                              *)
(***************************************************************************)
DecimalDigits == <<"0","1","2","3","4","5","6","7","8","9">>
IsDigit(c) == OccursIn(DecimalDigits, c)
DigitValue(c) == IndexIn(DecimalDigits, c) - 1

\* StrWhiteSpaceChar: WhiteSpace and LineTerminator
StrWhiteSpaceChars ==
    {" ", "\t", "\n", "\r", "\f", "U+000B", "U+00A0", "U+1680", "U+2000", "U+2001",
     "U+2002", "U+2003", "U+2004", "U+2005", "U+2006", "U+2007", "U+2008",
     "U+2009", "U+200A", "U+2028", "U+2029", "U+202F", "U+205F", "U+3000",
     "U+FEFF"}

\* the first position from k on that holds no code unit of the set chars
FirstOutside(s, k, chars) ==
    IF k > Len(s) THEN k
    ELSE CHOOSE j \in k..(Len(s) + 1) :
            /\ j = Len(s) + 1 \/ s[j] \notin chars
            /\ \A i \in k..(j - 1) : s[i] \in chars

DigitChars == {DecimalDigits[k] : k \in 1..Len(DecimalDigits)}

\* A natural number of any size: its digits in base 2^14, the least
\* significant first, without a zero at the high end; <<>> is 0.
\* The operators on a range lo..hi of digits halve the range, so that an
\* evaluation nests no deeper than the logarithm of the length.
Trim(b) ==
    LET nz == {j \in 1..Len(b) : b[j] # 0}
    IN  IF nz = {} THEN <<>>
        ELSE SubSeq(b, 1, CHOOSE j \in nz : \A i \in nz : i <= j)

\* digits lo..hi of b times m plus c, m < 2^14 and c < 2^14:
\* <<the low hi - lo + 1 digits, the carry>>
RECURSIVE MulLimbs(_, _, _, _, _)
MulLimbs(b, lo, hi, m, c) ==
    IF lo > hi THEN <<<<>>, c>>
    ELSE IF lo = hi THEN <<<<(b[lo] * m + c) % B14>>, (b[lo] * m + c) \div B14>>
    ELSE LET mid == (lo + hi) \div 2
             low == MulLimbs(b, lo, mid, m, c)
             high == MulLimbs(b, mid + 1, hi, m, low[2])
         IN  <<low[1] \o high[1], high[2]>>

\* b * m + c
BigMulAdd(b, m, c) ==
    LET r == MulLimbs(b, 1, Len(b), m, c)
    IN  IF r[2] = 0 THEN r[1] ELSE Append(r[1], r[2])

\* digits lo..hi of b, after the remainder r of the digits above them,
\* divided by m <= 2^14: <<the quotient digits, the most significant
\* first, the remainder>>
RECURSIVE DivLimbs(_, _, _, _, _)
DivLimbs(b, lo, hi, m, r) ==
    IF lo > hi THEN <<<<>>, r>>
    ELSE IF lo = hi THEN <<<<(r * B14 + b[lo]) \div m>>, (r * B14 + b[lo]) % m>>
    ELSE LET mid == (lo + hi) \div 2
             high == DivLimbs(b, mid + 1, hi, m, r)
             low == DivLimbs(b, lo, mid, m, high[2])
         IN  <<high[1] \o low[1], low[2]>>

\* <<quotient, remainder>> of b by m
BigDivSmall(b, m) ==
    LET r == DivLimbs(b, 1, Len(b), m, 0)
    IN  <<Trim([j \in 1..Len(b) |-> r[1][Len(b) + 1 - j]]), r[2]>>

\* digits lo..hi of a + b + c, c <= 1: <<the digits, the carry>>
RECURSIVE AddLimbs(_, _, _, _, _)
AddLimbs(a, b, lo, hi, c) ==
    IF lo > hi THEN <<<<>>, c>>
    ELSE IF lo = hi
         THEN LET t == (IF lo <= Len(a) THEN a[lo] ELSE 0)
                           + (IF lo <= Len(b) THEN b[lo] ELSE 0) + c
              IN  <<<<t % B14>>, t \div B14>>
    ELSE LET mid == (lo + hi) \div 2
             low == AddLimbs(a, b, lo, mid, c)
             high == AddLimbs(a, b, mid + 1, hi, low[2])
         IN  <<low[1] \o high[1], high[2]>>

BigAdd(a, b) ==
    LET r == AddLimbs(a, b, 1, Max(Len(a), Len(b)), 0)
    IN  IF r[2] = 0 THEN r[1] ELSE Append(r[1], r[2])

\* b * 5^x
RECURSIVE BigMulPow5(_, _)
BigMulPow5(b, x) ==
    IF b = <<>> THEN <<>>
    ELSE IF x <= 5 THEN BigMulAdd(b, 5^x, 0)
    ELSE BigMulPow5(BigMulPow5(b, x \div 2), x - (x \div 2))

\* <<1 when the division of b by 5^x leaves a remainder else 0, the quotient>>
RECURSIVE BigDivPow5(_, _)
BigDivPow5(b, x) ==
    IF b = <<>> THEN <<0, <<>>>>
    ELSE IF x <= 6
    THEN LET q == BigDivSmall(b, 5^x) IN <<IF q[2] # 0 THEN 1 ELSE 0, q[1]>>
    ELSE LET first == BigDivPow5(b, x \div 2)
             second == BigDivPow5(first[2], x - (x \div 2))
         IN  <<Max(first[1], second[1]), second[2]>>

BigBitLen(b) == IF b = <<>> THEN 0 ELSE 14 * (Len(b) - 1) + BitLen(b[Len(b)])

\* b * 2^k
BigShiftLeft(b, k) ==
    IF b = <<>> THEN <<>>
    ELSE [j \in 1..(k \div 14) |-> 0] \o BigMulAdd(b, 2^(k % 14), 0)

\* <<b shifted right by k bits, 1 when a bit that is 1 was shifted out else 0>>
BigShiftRight(b, k) ==
    LET n == Min(k \div 14, Len(b))
        q == BigDivSmall(SubSeq(b, n + 1, Len(b)), 2^(k % 14))
    IN  <<q[1], IF q[2] # 0 \/ (\E j \in 1..n : b[j] # 0) THEN 1 ELSE 0>>

\* a number below 2^58 as <<hi, lo>> = hi * 2^27 + lo
BigToW(b) ==
    LET limb(j) == IF j <= Len(b) THEN b[j] ELSE 0
    IN  <<(limb(2) \div 8192) + limb(3) * 2 + limb(4) * 32768 + limb(5) * 536870912,
          limb(1) + (limb(2) % 8192) * B14>>

\* the number the decimal digits lo..hi of ds denote
RECURSIVE BigFromDigits(_, _, _)
BigFromDigits(ds, lo, hi) ==
    IF lo > hi THEN <<>>
    ELSE IF lo = hi
         THEN (IF DigitValue(ds[lo]) = 0 THEN <<>> ELSE <<DigitValue(ds[lo])>>)
    ELSE LET mid == (lo + hi) \div 2
             high == BigFromDigits(ds, lo, mid)
             low == BigFromDigits(ds, mid + 1, hi)
         IN  BigAdd(BigShiftLeft(BigMulPow5(high, hi - mid), hi - mid), low)

\* The double nearest to d * 10^x (ties to even) with sign s, for a number
\* d > 0
DecimalToDouble(s, d, x) ==
    IF x >= 0
    THEN LET n == BigMulPow5(d, x)
             k == Max(0, BigBitLen(n) - 57)
             top == BigShiftRight(n, k)
         IN  Pack(s, BigToW(top[1]), top[2], x + k)
    ELSE LET m == 0 - x
             k == 57 - BigBitLen(d) + ((m * 2322) \div 1000)
             num == IF k >= 0 THEN <<BigShiftLeft(d, k), 0>> ELSE BigShiftRight(d, 0 - k)
             q == BigDivPow5(num[1], m)
         IN  Pack(s, BigToW(q[2]), Max(num[2], q[1]), 0 - (m + k))

\* the value of the first n decimal digits of ds, n <= 9
RECURSIVE SmallValue(_, _)
SmallValue(ds, n) ==
    IF n = 0 THEN 0 ELSE 10 * SmallValue(ds, n - 1) + DigitValue(ds[n])

LitInfinity == <<"I","n","f","i","n","i","t","y">>

\* The double nearest to the n significant digits first..last of digits
\* with the last of them at 10^x, where n + x = 10 * m1 + m0, 0 <= m0 <= 9.
\* The value is at least 10^(n+x-1) and less than 10^(n+x): it rounds to
\* Infinity when n + x > 309 and to 0 when n + x < -323
DigitsRounded(s, digits, first, last, m1, m0) ==
    IF m1 >= 31 THEN Infinity(s)
    ELSE IF m1 <= 0 - 34 \/ (m1 = 0 - 33 /\ m0 <= 6) THEN <<s, EMin, 0, 0>>
    ELSE DecimalToDouble(s, BigFromDigits(digits, first, last),
                         10 * m1 + m0 - (last - first + 1))

\* n + x is u plus or minus the exponent 10 * a + b, which need not fit the
\* integers of the model: the tens and the units are added apart
DigitsScaled(s, digits, first, last, u, negExp, a, b) ==
    LET t == IF negExp THEN (u % 10) - b ELSE (u % 10) + b
        h == IF negExp THEN (u \div 10) - a ELSE (u \div 10) + a
    IN  DigitsRounded(s, digits, first, last, h + (t \div 10), t % 10)

\* The value of the digits times 10^(exponent - fracLen), where the
\* exponent has the decimal digits e (no leading zero, any number of them)
\* and is negative when negExp.  An exponent of more than ten digits
\* exceeds the length of every string
DigitsValue(s, digits, fracLen, negExp, e) ==
    LET first == FirstOutside(digits, 1, {"0"})
        zeros == Cardinality({j \in first..Len(digits) :
                                 \A i \in j..Len(digits) : digits[i] = "0"})
    IN  IF Len(digits) = 0 THEN NaN
        ELSE IF first > Len(digits) THEN <<s, EMin, 0, 0>>
        ELSE IF Len(e) > 10 THEN (IF negExp THEN <<s, EMin, 0, 0>> ELSE Infinity(s))
        ELSE DigitsScaled(s, digits, first, Len(digits) - zeros,
                          Len(digits) - first + 1 - fracLen, negExp,
                          IF Len(e) = 0 THEN 0 ELSE SmallValue(e, Len(e) - 1),
                          IF Len(e) = 0 THEN 0 ELSE DigitValue(e[Len(e)]))

\* the StrDecimalLiteral of sign s from position b on: digits up to c, a dot
\* at c or none, digits up to d, and an ExponentPart at d or none
LiteralValue(string, s, b, c, d) ==
    LET intDigits == SubSeq(string, b, c - 1)
        fracDigits == IF d > c THEN SubSeq(string, c + 1, d - 1) ELSE <<>>
        hasE == d <= Len(string) /\ string[d] \in {"e", "E"}
        expSigned == hasE /\ d + 1 <= Len(string) /\ string[d + 1] \in {"+", "-"}
        g == IF expSigned THEN d + 2 ELSE d + 1
        h == IF hasE THEN FirstOutside(string, g, DigitChars) ELSE g
        expDigits == IF hasE /\ h > g
                     THEN SubSeq(string, FirstOutside(string, g, {"0"}), h - 1)
                     ELSE <<>>
    IN  DigitsValue(s, intDigits \o fracDigits, Len(fracDigits),
                    expSigned /\ string[d + 1] = "-", expDigits)

\* parseFloat(string): white space in front is skipped, then the longest
\* prefix that is a StrDecimalLiteral is converted; NaN when there is none
parseFloat(string) ==
    LET a == FirstOutside(string, 1, StrWhiteSpaceChars)
        signed == a <= Len(string) /\ string[a] \in {"+", "-"}
        s == IF signed /\ string[a] = "-" THEN 1 ELSE 0
        b == IF signed THEN a + 1 ELSE a
        c == FirstOutside(string, b, DigitChars)
        hasDot == c <= Len(string) /\ string[c] = "."
        d == IF hasDot THEN FirstOutside(string, c + 1, DigitChars) ELSE c
    IN  IF b + 7 <= Len(string) /\ SubSeq(string, b, b + 7) = LitInfinity
        THEN Infinity(s)
        ELSE LiteralValue(string, s, b, c, d)

(***************************************************************************)
(* new Date(text).getTime()                                                *)
(***************************************************************************)
\* the number the k decimal digits of s from position p on denote, k <= 6,
\* or -1 when there are no k digits at p
DigitsAt(s, p, k) ==
    IF p + k - 1 <= Len(s) /\ \A i \in p..(p + k - 1) : IsDigit(s[i])
    THEN SmallValue(SubSeq(s, p, p + k - 1), k)
    ELSE 0 - 1

CharAt(s, p, c) == p <= Len(s) /\ s[p] = c

InLeapYear(y) == y % 4 = 0 /\ (y % 100 # 0 \/ y % 400 = 0)

DaysInMonth(y, m) ==
    IF m = 2 THEN (IF InLeapYear(y) THEN 29 ELSE 28)
    ELSE IF m \in {4, 6, 9, 11} THEN 30 ELSE 31

\* MakeDay: the number of days from 1970-01-01 to the day d of the month m
\* (1..12) of the year y of the proleptic Gregorian calendar
MakeDay(y, m, d) ==
    LET yy == IF m <= 2 THEN y - 1 ELSE y
        era == yy \div 400
        yoe == yy - era * 400
        mp == IF m > 2 THEN m - 3 ELSE m + 9
        doy == ((153 * mp + 2) \div 5) + d - 1
        doe == yoe * 365 + (yoe \div 4) - (yoe \div 100) + doy
    IN  era * 146097 + doe - 719468

MsPerDay == 86400000
MsPerMinute == 60000

\* the greatest time value: 100,000,000 days
MaxTime == NumMul(Num(100000000), Num(MsPerDay))

TimeClip(t) ==
    IF IsNaN(t) \/ IsInfinite(t) THEN NaN
    ELSE IF NumGt(<<0, t[2], t[3], t[4]>>, MaxTime) THEN NaN
    ELSE NumAdd(t, Zero)

LitYesterday == <<"y","e","s","t","e","r","d","a","y">>
LitNotADate == <<"n","o","t"," ","a"," ","d","a","t","e">>
LitAbc == <<"a","b","c">>

\* Date.parse of a text that is not in the Date Time String Format is left
\* to the engine.  The texts listed are those the model uses; V8,
\* SpiderMonkey and JavaScriptCore give NaN for each of them.
LegacyDateParse(text) ==
    CASE text = <<>> -> NaN
      [] text = LitYesterday -> NaN
      [] text = LitNotADate -> NaN
      [] text = LitAbc -> NaN

\* new Date(text).getTime() in an environment whose local time is tza
\* minutes ahead of UTC.  The Date Time String Format:
\*   YYYY or +YYYYYY or -YYYYYY, then -MM, then -DD, then
\*   THH:mm, then :ss, then .sss, then Z or +HH:mm or -HH:mm.
\* A date alone is UTC; a date with a time and no offset is local time.
DateGetTime(text, tza) ==
    LET expanded == Len(text) >= 1 /\ text[1] \in {"+", "-"}
        yearAt == IF expanded THEN 2 ELSE 1
        yearLen == IF expanded THEN 6 ELSE 4
        yearDigits == DigitsAt(text, yearAt, yearLen)
        year == IF expanded /\ text[1] = "-" THEN 0 - yearDigits ELSE yearDigits
        p1 == yearAt + yearLen
        hasMonth == CharAt(text, p1, "-")
        month == IF hasMonth THEN DigitsAt(text, p1 + 1, 2) ELSE 1
        p2 == IF hasMonth THEN p1 + 3 ELSE p1
        hasDay == hasMonth /\ CharAt(text, p2, "-")
        day == IF hasDay THEN DigitsAt(text, p2 + 1, 2) ELSE 1
        p3 == IF hasDay THEN p2 + 3 ELSE p2
        hasTime == CharAt(text, p3, "T")
        hour == IF hasTime THEN DigitsAt(text, p3 + 1, 2) ELSE 0
        minute == IF hasTime /\ CharAt(text, p3 + 3, ":")
                  THEN DigitsAt(text, p3 + 4, 2) ELSE IF hasTime THEN 0 - 1 ELSE 0
        p4 == IF hasTime THEN p3 + 6 ELSE p3
        hasSecond == hasTime /\ CharAt(text, p4, ":")
        second == IF hasSecond THEN DigitsAt(text, p4 + 1, 2) ELSE 0
        p5 == IF hasSecond THEN p4 + 3 ELSE p4
        hasMs == hasSecond /\ CharAt(text, p5, ".")
        ms == IF hasMs THEN DigitsAt(text, p5 + 1, 3) ELSE 0
        p6 == IF hasMs THEN p5 + 4 ELSE p5
        isZ == hasTime /\ CharAt(text, p6, "Z")
        hasOffset == hasTime /\ p6 <= Len(text) /\ text[p6] \in {"+", "-"}
        offsetHour == IF hasOffset THEN DigitsAt(text, p6 + 1, 2) ELSE 0
        offsetMinute == IF hasOffset /\ CharAt(text, p6 + 3, ":")
                        THEN DigitsAt(text, p6 + 4, 2) ELSE IF hasOffset THEN 0 - 1 ELSE 0
        p7 == IF isZ THEN p6 + 1 ELSE IF hasOffset THEN p6 + 6 ELSE p6
        inFormat ==
            /\ p7 = Len(text) + 1
            /\ yearDigits >= 0
            /\ ~(expanded /\ text[1] = "-" /\ yearDigits = 0)
            /\ month \in 1..12
            /\ day \in 1..DaysInMonth(year, month)
            /\ hour \in 0..24
            /\ minute \in 0..59
            /\ second \in 0..59
            /\ ms \in 0..999
            /\ hour = 24 => (minute = 0 /\ second = 0 /\ ms = 0)
            /\ offsetHour \in 0..23
            /\ offsetMinute \in 0..59
        msInDay == hour * 3600000 + minute * MsPerMinute + second * 1000 + ms
        t == NumAdd(NumMul(Num(MakeDay(year, month, day)), Num(MsPerDay)), Num(msInDay))
        offset == IF hasOffset
                  THEN (IF text[p6] = "-" THEN 0 - 1 ELSE 1)
                           * (offsetHour * 60 + offsetMinute)
                  ELSE IF hasTime /\ ~isZ THEN tza
                  ELSE 0
    IN  IF inFormat THEN TimeClip(NumSub(t, Num(offset * MsPerMinute)))
        ELSE LegacyDateParse(text)

(***************************************************************************)
(* Track: utils/gpxParser.ts parseGpx and VideoAnalysis.tsx                *)
(* interpolateLocation.  Latitudes, longitudes and times (ms) are doubles. *)
(***************************************************************************)
GpxPoint(la, lo, t) == [lat |-> la, lon |-> lo, time |-> t]
Null == [null |-> TRUE]
LatLon(la, lo) == [latitude |-> la, longitude |-> lo]

\* lines 104-110: the first index i (0-based) whose pair (i, i+1) brackets
\* targetTime, or -1
FirstBracket(trk, targetTime) ==
    LET hits == {i \in 0..(Len(trk) - 2) :
                    /\ NumLeq(trk[i + 1].time, targetTime)
                    /\ NumGeq(trk[i + 2].time, targetTime)}
    IN  IF hits = {} THEN 0 - 1 ELSE CHOOSE i \in hits : \A j \in hits : i <= j

\* Variant: the longitude interpolated with the latitude difference
interpolateLocationLatDelta(ts, trk, start) ==
    IF Len(trk) = 0 THEN Null
    ELSE LET targetTime == NumAdd(start, NumMul(ts, Num(1000)))
             i == FirstBracket(trk, targetTime)
         IN  IF i < 0
             THEN IF NumLt(targetTime, trk[1].time)
                  THEN LatLon(trk[1].lat, trk[1].lon)
                  ELSE LatLon(trk[Len(trk)].lat, trk[Len(trk)].lon)
             ELSE LET p1 == trk[i + 1]
                      p2 == trk[i + 2]
                      timeDiff == NumSub(p2.time, p1.time)
                      factor == NumDiv(NumSub(targetTime, p1.time), timeDiff)
                  IN  IF NumEq(timeDiff, Zero) THEN LatLon(p1.lat, p1.lon)
                      ELSE LatLon(NumAdd(p1.lat, NumMul(NumSub(p2.lat, p1.lat), factor)),
                                  NumAdd(p1.lon, NumMul(NumSub(p2.lat, p1.lat), factor)))

\* Variant: no clamp at the start, the last point for every target outside
interpolateLocationNoStartClamp(ts, trk, start) ==
    IF Len(trk) = 0 THEN Null
    ELSE LET targetTime == NumAdd(start, NumMul(ts, Num(1000)))
             i == FirstBracket(trk, targetTime)
         IN  IF i < 0
             THEN LatLon(trk[Len(trk)].lat, trk[Len(trk)].lon)
             ELSE LET p1 == trk[i + 1]
                      p2 == trk[i + 2]
                      timeDiff == NumSub(p2.time, p1.time)
                      factor == NumDiv(NumSub(targetTime, p1.time), timeDiff)
                  IN  IF NumEq(timeDiff, Zero) THEN LatLon(p1.lat, p1.lon)
                      ELSE LatLon(NumAdd(p1.lat, NumMul(NumSub(p2.lat, p1.lat), factor)),
                                  NumAdd(p1.lon, NumMul(NumSub(p2.lon, p1.lon), factor)))

\* Variant: no test of timeDiff === 0, the division is always performed
interpolateLocationAlwaysDivides(ts, trk, start) ==
    IF Len(trk) = 0 THEN Null
    ELSE LET targetTime == NumAdd(start, NumMul(ts, Num(1000)))
             i == FirstBracket(trk, targetTime)
         IN  IF i < 0
             THEN IF NumLt(targetTime, trk[1].time)
                  THEN LatLon(trk[1].lat, trk[1].lon)
                  ELSE LatLon(trk[Len(trk)].lat, trk[Len(trk)].lon)
             ELSE LET p1 == trk[i + 1]
                      p2 == trk[i + 2]
                      timeDiff == NumSub(p2.time, p1.time)
                      factor == NumDiv(NumSub(targetTime, p1.time), timeDiff)
                  IN  LatLon(NumAdd(p1.lat, NumMul(NumSub(p2.lat, p1.lat), factor)),
                             NumAdd(p1.lon, NumMul(NumSub(p2.lon, p1.lon), factor)))

\* VideoAnalysis.tsx lines 97-125
interpolateLocation(ts, trk, start) ==
    IF Len(trk) = 0 THEN Null
    ELSE LET targetTime == NumAdd(start, NumMul(ts, Num(1000)))
             i == FirstBracket(trk, targetTime)
         IN  IF i < 0
             THEN IF NumLt(targetTime, trk[1].time)
                  THEN LatLon(trk[1].lat, trk[1].lon)
                  ELSE LatLon(trk[Len(trk)].lat, trk[Len(trk)].lon)
             ELSE LET p1 == trk[i + 1]
                      p2 == trk[i + 2]
                      timeDiff == NumSub(p2.time, p1.time)
                      factor == NumDiv(NumSub(targetTime, p1.time), timeDiff)
                  IN  IF NumEq(timeDiff, Zero) THEN LatLon(p1.lat, p1.lon)
                      ELSE LatLon(NumAdd(p1.lat, NumMul(NumSub(p2.lat, p1.lat), factor)),
                                  NumAdd(p1.lon, NumMul(NumSub(p2.lon, p1.lon), factor)))

\* 2024-01-01T00:00:00Z, in ms
T0 == NumMul(Num(19723), Num(MsPerDay))
SecondsAfterT0(n) == NumAdd(T0, Num(n * 1000))

\* Points of a recorded track; PointC and PointD share a timestamp, PointA
\* and PointE too
PointA == GpxPoint(Zero, Zero, T0)
PointB == GpxPoint(Num(10), Num(10), SecondsAfterT0(10))
PointC == GpxPoint(Ratio(1, 10), Ratio(2, 10), SecondsAfterT0(5))
PointD == GpxPoint(Num(7), Num(3), SecondsAfterT0(5))
PointE == GpxPoint(Num(1), Num(1), T0)
PointPool == {PointA, PointB, PointC, PointD, PointE}

\* timestamp (seconds from videoStartTime), before, inside and after the track
Timestamps == {Num(0 - 100), Zero, Ratio(5, 2), Num(5), Num(10), Num(15)}

\* An attribute or the text of an element of the GPX document: absent
\* (getAttribute and querySelector return null) or a string
Absent == [has |-> FALSE, text |-> <<>>]
Text(chars) == [has |-> TRUE, text |-> chars]
Trkpt(la, lo, t) == [lat |-> la, lon |-> lo, time |-> t]

\* JavaScript truthiness of (string | null): null and "" are falsy
Truthy(a) == a.has /\ a.text # <<>>

\* line 23: lat && lon && timeEl?.textContent
Pushes(pt) == Truthy(pt.lat) /\ Truthy(pt.lon) /\ Truthy(pt.time)

\* lines 18-34: the points pushed, in document order, in an environment
\* whose local time is tza minutes ahead of UTC
PushedPoints(trkpts, tza) ==
    LET kept == SelectSeq(trkpts, Pushes)
    IN  [k \in 1..Len(kept) |->
            [lat |-> parseFloat(kept[k].lat.text),
             lon |-> parseFloat(kept[k].lon.text),
             time |-> DateGetTime(kept[k].time.text, tza)]]

\* the comparator of line 41, a.time.getTime() - b.time.getTime(), as the
\* sort reads it: the sign of the difference, a NaN counts as 0
CompareTime(a, b) ==
    LET d == NumSub(a.time, b.time)
    IN  IF IsNaN(d) \/ IsZero(d) THEN 0 ELSE IF d[1] = 1 THEN 0 - 1 ELSE 1

AnyOrder(q) ==
    {[k \in 1..Len(q) |-> q[f[k]]] :
        f \in {g \in [1..Len(q) -> 1..Len(q)] : \A i, j \in 1..Len(q) : i # j => g[i] # g[j]}}

\* the comparator is consistent on q: it orders q as a strict weak order does
ConsistentComparator(q) ==
    \A i, j, k \in 1..Len(q) :
        (CompareTime(q[i], q[j]) = 0 /\ CompareTime(q[j], q[k]) = 0)
            => CompareTime(q[i], q[k]) = 0

\* q[f[1]], q[f[2]], ... is q sorted by the comparator, equal elements in
\* their order in q
StableSorted(q, f) ==
    \A i, j \in 1..Len(q) : i < j =>
        LET c == CompareTime(q[f[i]], q[f[j]])
        IN  c < 0 \/ (c = 0 /\ f[i] < f[j])

\* line 41, points.sort(...): the stable sort when the comparator is
\* consistent; any order of the elements otherwise (the order is then
\* implementation-defined)
SortOutcomes(q) ==
    IF ConsistentComparator(q)
    THEN {[k \in 1..Len(q) |-> q[f[k]]] :
             f \in {g \in [1..Len(q) -> 1..Len(q)] :
                       /\ \A i, j \in 1..Len(q) : i # j => g[i] # g[j]
                       /\ StableSorted(q, g)}}
    ELSE AnyOrder(q)

\* parseGpx throws: parsererror, no <trkpt>, or no point pushed
parseGpxThrows(content) ==
    \/ content.parsererror
    \/ Len(content.trkpts) = 0
    \/ \A k \in 1..Len(content.trkpts) : ~Pushes(content.trkpts[k])

\* the arrays parseGpx can return where local time is tza minutes ahead of UTC
parseGpx(content, tza) == SortOutcomes(PushedPoints(content.trkpts, tza))

\* the offsets of local time from UTC, in minutes, of the environments
\* modelled
LocalOffsets == {0, 330}

\* The <trkpt> elements of a GPX file.  The <time> of RawC has no offset:
\* it is local time.
Chars0 == <<"0">>
Chars10 == <<"1","0",".","0">>
Chars1e1 == <<"1","e","1">>
CharsTenth == <<"0",".","1">>
CharsFifth == <<"0",".","2">>
Chars1 == <<"1">>
CharsAbc == <<"a","b","c">>
CharsDay == <<"2","0","2","4","-","0","1","-","0","1","T","0","0",":","0","0",":">>
Time0Z == CharsDay \o <<"0","0","Z">>
Time5Z == CharsDay \o <<"0","5","Z">>
Time10Z == CharsDay \o <<"1","0","Z">>
Time5Local == CharsDay \o <<"0","5">>
RawA == Trkpt(Text(Chars0), Text(Chars0), Text(Time0Z))
RawB == Trkpt(Text(Chars10), Text(Chars1e1), Text(Time10Z))
RawC == Trkpt(Text(CharsTenth), Text(CharsFifth), Text(Time5Local))
RawNoLat == Trkpt(Absent, Text(Chars1), Text(Time5Z))
RawBadLat == Trkpt(Text(CharsAbc), Text(Chars1), Text(Time5Z))
RawBadTime == Trkpt(Text(Chars1), Text(Chars1), Text(LitYesterday))
RawEmptyTime == Trkpt(Text(Chars1), Text(Chars1), Text(<<>>))
RawNoTime == Trkpt(Text(Chars1), Text(Chars1), Absent)
RawPool == {RawA, RawB, RawC, RawNoLat, RawBadLat, RawBadTime, RawEmptyTime, RawNoTime}

Unparsable == [parsererror |-> TRUE, trkpts |-> <<>>]
Document(trkpts) == [parsererror |-> FALSE, trkpts |-> trkpts]
NoContent == [parsererror |-> FALSE, trkpts |-> <<>>, none |-> TRUE]

\* handleAnalyze lines 150-151: gpxTrack = parseGpx(gpxContent) and
\* videoStartTime = gpxTrack[0].time.getTime(), or the exception of parseGpx
ParseGpx ==
    /\ pc = "parse"
    /\ IF parseGpxThrows(gpxContent)
       THEN /\ pc' = "gpxError"
            /\ UNCHANGED <<track, videoStartTime>>
       ELSE \E tza \in LocalOffsets :
                /\ track' \in parseGpx(gpxContent, tza)
                /\ videoStartTime' = track'[1].time
                /\ pc' = "interpolate"
    /\ UNCHANGED <<aiDefects, gtDefects, iouThreshold, aiIndex, matchedGtIndices,
                   perClassData, bestMatches, metrics, boxA, boxB, iou, calls,
                   gpxContent, timestamp, location, prfVars, analysisVars>>

\* a call interpolateLocation(timestamp, track, videoStartTime) for the
\* timestamp of a frame
CallInterpolateLocation ==
    /\ pc = "interpolate"
    /\ \E ts \in Timestamps :
          /\ timestamp' = ts
          /\ location' = interpolateLocation(ts, track, videoStartTime)
    /\ pc' = "located"
    /\ UNCHANGED <<aiDefects, gtDefects, iouThreshold, aiIndex, matchedGtIndices,
                   perClassData, bestMatches, metrics, boxA, boxB, iou, calls,
                   gpxContent, track, videoStartTime, prfVars, analysisVars>>

\* the order parseGpx leaves its result in (line 41): times non-decreasing
TimeSorted(trk) ==
    \A i \in 1..(Len(trk) - 1) : NumLeq(trk[i].time, trk[i + 1].time)

\* Either a call of interpolateLocation (lines 97-125) on any list of
\* points, in any order, with the start time T0; or handleAnalyze with a GPX
\* document before it is parsed: gpxTrack = [] and videoStartTime = 0
\* (lines 141-142)
InitTrack ==
    /\ \/ /\ gpxContent = NoContent
          /\ track \in SeqsUpTo(PointPool, MaxTrack)
          /\ videoStartTime = T0
          /\ pc = "interpolate"
       \/ /\ gpxContent \in {Unparsable} \cup {Document(q) : q \in SeqsUpTo(RawPool, MaxTrkpt)}
          /\ track = <<>>
          /\ videoStartTime = Zero
          /\ pc = "parse"
    /\ timestamp = Zero
    /\ location = Undefined
    /\ aiDefects = <<>>
    /\ gtDefects = <<>>
    /\ iouThreshold = DefaultThreshold
    /\ aiIndex = 0
    /\ matchedGtIndices = {}
    /\ perClassData = NewObject
    /\ bestMatches = <<>>
    /\ metrics = NoValue
    /\ boxA = NoValue
    /\ boxB = NoValue
    /\ iou = NoValue
    /\ calls = <<>>
    /\ NoPrf
    /\ NoAnalysis

NextTrack == ParseGpx \/ CallInterpolateLocation

SpecTrack == InitTrack /\ [][NextTrack]_vars

\* Calls of compareDetections, of interpolateLocation and of parseGpx
InitFrame == InitCalls \/ InitTrack
NextFrame == NextCalls \/ NextTrack
SpecFrame == InitFrame /\ [][NextFrame]_vars

(***************************************************************************)
(* VideoAnalysis.tsx: handleAnalyze, handleCancel and useCancellableProcess.*)
(* A run is one invocation of handleAnalyze; it advances from one await to *)
(* the next in one step, when the awaited promise settles.  An analysed    *)
(* frame yields up to MaxDefects defects; a defect is recorded in results  *)
(* by the number of its run.                                               *)
(***************************************************************************)
coreVars == <<aiDefects, gtDefects, iouThreshold, pc, aiIndex, matchedGtIndices,
              perClassData, bestMatches, metrics, boxA, boxB, iou, calls>>

\* a run at its first await; found is allDefects.length
NewRun(firstAwait) ==
    [at |-> firstAwait, i |-> 0, totalFrames |-> 0, found |-> 0, cancelled |-> FALSE]

Active(run) == run.at # "returned"

\* cancel() was called while these runs were pending
MarkCancelled(rs) ==
    [k \in 1..Len(rs) |-> IF Active(rs[k]) THEN [rs[k] EXCEPT !.cancelled = TRUE]
                          ELSE rs[k]]

\* allDefects of run r with n elements
AllDefects(r, n) == [k \in 1..n |-> r]

\* lines 157-161: the handlers of run r are installed and video.src is set
AwaitMetadata(r) ==
    [video EXCEPT !.onloadedmetadata = r, !.onerror = r, !.pending = "metadata"]

\* lines 198-202: the handlers of run r are installed and video.currentTime
\* is set
AwaitSeek(r) ==
    [video EXCEPT !.onseeked = r, !.onerror = r, !.pending = "seek"]

\* lines 127-139 and 232, useCancellableProcess.run lines 28-29: the
\* Analyze button is shown when status is 'idle' and enabled with a video
\* file and online (line 446), so the returns of lines 128-133 are not
\* taken; the run proceeds to its first await
HandleAnalyze ==
    /\ mounted
    /\ status = "idle"
    /\ Len(runs) < MaxRuns
    /\ status' = "processing"
    /\ statusBy' = 0
    /\ results' = <<>>
    /\ isCancelledRef' = FALSE
    /\ \E gpxFile \in BOOLEAN :
          IF gpxFile
          THEN /\ runs' = Append(runs, NewRun("gpxText"))
               /\ UNCHANGED video
          ELSE /\ runs' = Append(runs, NewRun("metadata"))
               /\ video' = AwaitMetadata(Len(runs) + 1)
    /\ UNCHANGED <<mounted, coreVars, trackVars, prfVars>>

\* lines 301-306: the Cancel button is shown when status is 'processing'
HandleCancel ==
    /\ mounted
    /\ status = "processing"
    /\ isCancelledRef' = TRUE
    /\ status' = "idle"
    /\ statusBy' = 0
    /\ results' = <<>>
    /\ runs' = MarkCancelled(runs)
    /\ UNCHANGED <<mounted, video, coreVars, trackVars, prfVars>>

\* lines 78-88 and the effect cleanup of lines 71-75 (videoUrl changes):
\* the file input is shown when status is 'idle'
HandleVideoFileChange ==
    /\ mounted
    /\ status = "idle"
    /\ results' = <<>>
    /\ status' = "idle"
    /\ statusBy' = 0
    /\ isCancelledRef' = TRUE
    /\ runs' = MarkCancelled(runs)
    /\ UNCHANGED <<mounted, video, coreVars, trackVars, prfVars>>

\* line 564: the Try Again button is shown when status is 'error'
TryAgain ==
    /\ mounted
    /\ status = "error"
    /\ status' = "idle"
    /\ statusBy' = 0
    /\ UNCHANGED <<results, isCancelledRef, mounted, video, runs, coreVars, trackVars,
                   prfVars>>

\* lines 20-25 and 71-75: the cleanups on unmount; the state of the
\* component is gone
Unmount ==
    /\ mounted
    /\ mounted' = FALSE
    /\ isCancelledRef' = TRUE
    /\ runs' = MarkCancelled(runs)
    /\ status' = "idle"
    /\ statusBy' = 0
    /\ results' = <<>>
    /\ UNCHANGED <<video, coreVars, trackVars, prfVars>>

\* lines 225-230: the catch block
Catch(r) ==
    /\ runs' = [runs EXCEPT ![r].at = "returned"]
    /\ IF isCancelledRef
       THEN UNCHANGED <<status, statusBy>>
       ELSE status' = "error" /\ statusBy' = r
    /\ UNCHANGED results

\* lines 172-173, 198-202 and 223-224: with i < totalFrames, isCancelled()
\* and then the await of the seek; otherwise the end of the loop, where
\* results becomes allDefects and status 'done'
LoopTop(r, i, found) ==
    IF i < runs[r].totalFrames
    THEN /\ runs' = [runs EXCEPT ![r].i = i, ![r].found = found,
                                  ![r].at = IF isCancelledRef THEN "returned" ELSE "seek"]
         /\ video' = IF isCancelledRef THEN video ELSE AwaitSeek(r)
         /\ UNCHANGED <<status, statusBy>>
    ELSE /\ runs' = [runs EXCEPT ![r].at = "returned", ![r].i = i, ![r].found = found]
         /\ status' = "done"
         /\ statusBy' = r
         /\ UNCHANGED video

\* lines 148-161: gpxFile.text() resolves; parseGpx returns or throws
ResolveGpxText ==
    \E r \in 1..Len(runs) :
        /\ runs[r].at = "gpxText"
        /\ IF isCancelledRef
           THEN /\ runs' = [runs EXCEPT ![r].at = "returned"]
                /\ UNCHANGED <<status, statusBy, results, video>>
           ELSE \E throws \in BOOLEAN :
                   IF throws THEN Catch(r) /\ UNCHANGED video
                   ELSE /\ runs' = [runs EXCEPT ![r].at = "metadata"]
                        /\ video' = AwaitMetadata(r)
                        /\ UNCHANGED <<status, statusBy, results>>
        /\ UNCHANGED <<isCancelledRef, mounted, coreVars, trackVars, prfVars>>

\* lines 157-173: loadedmetadata fires and calls the handler of run r;
\* duration is usable or not; totalFrames may be 0
ResolveMetadata ==
    \E r \in 1..Len(runs) :
        /\ runs[r].at = "metadata"
        /\ video.pending = "metadata"
        /\ video.onloadedmetadata = r
        /\ IF isCancelledRef
           THEN /\ runs' = [runs EXCEPT ![r].at = "returned"]
                /\ video' = [video EXCEPT !.pending = "none"]
                /\ UNCHANGED <<status, statusBy, results>>
           ELSE \E throws \in BOOLEAN :
                   IF throws
                   THEN Catch(r) /\ video' = [video EXCEPT !.pending = "none"]
                   ELSE \E n \in 0..MaxFrames :
                           IF n = 0
                           THEN /\ runs' = [runs EXCEPT ![r].at = "returned"]
                                /\ results' = <<>>
                                /\ status' = "done"
                                /\ statusBy' = r
                                /\ video' = [video EXCEPT !.pending = "none"]
                           ELSE /\ runs' = [runs EXCEPT ![r].at = "seek",
                                                         ![r].totalFrames = n]
                                /\ video' = AwaitSeek(r)
                                /\ UNCHANGED <<status, statusBy, results>>
        /\ UNCHANGED <<isCancelledRef, mounted, coreVars, trackVars, prfVars>>

\* lines 198-215: seeked fires and calls the handler of run r; without a 2d
\* context or image data the frame is skipped (continue), otherwise
\* analyzeRoadImage is awaited
ResolveSeek ==
    \E r \in 1..Len(runs) :
        /\ runs[r].at = "seek"
        /\ video.pending = "seek"
        /\ video.onseeked = r
        /\ \E skipped \in BOOLEAN :
              IF skipped
              THEN /\ LET v == [video EXCEPT !.pending = "none"]
                      IN  IF runs[r].i + 1 < runs[r].totalFrames
                          THEN /\ runs' = [runs EXCEPT
                                              ![r].i = @ + 1,
                                              ![r].at = IF isCancelledRef THEN "returned"
                                                        ELSE "seek"]
                               /\ video' = IF isCancelledRef THEN v
                                           ELSE [v EXCEPT !.onseeked = r, !.onerror = r,
                                                          !.pending = "seek"]
                               /\ UNCHANGED <<status, statusBy, results>>
                          ELSE /\ runs' = [runs EXCEPT ![r].at = "returned", ![r].i = @ + 1]
                               /\ results' = AllDefects(r, runs[r].found)
                               /\ status' = "done"
                               /\ statusBy' = r
                               /\ video' = v
              ELSE /\ runs' = [runs EXCEPT ![r].at = "analyze"]
                   /\ video' = [video EXCEPT !.pending = "none"]
                   /\ UNCHANGED <<status, statusBy, results>>
        /\ UNCHANGED <<isCancelledRef, mounted, coreVars, trackVars, prfVars>>

\* lines 215-224: analyzeRoadImage resolves with n defects
\* (analysisResult.defects.length)
ResolveAnalyze ==
    \E r \in 1..Len(runs), n \in 0..MaxDefects :
        /\ runs[r].at = "analyze"
        /\ IF isCancelledRef
           THEN /\ runs' = [runs EXCEPT ![r].at = "returned", ![r].found = @ + n]
                /\ UNCHANGED <<status, statusBy, results, video>>
           ELSE /\ LoopTop(r, runs[r].i + 1, runs[r].found + n)
                /\ results' = IF runs[r].i + 1 < runs[r].totalFrames
                               THEN results \o AllDefects(r, n)
                               ELSE AllDefects(r, runs[r].found + n)
        /\ UNCHANGED <<isCancelledRef, mounted, coreVars, trackVars, prfVars>>

\* an awaited promise rejects: the file read or the service fails, or the
\* video fires error and calls the handler of run r
RejectAwait ==
    \E r \in 1..Len(runs) :
        /\ \/ /\ runs[r].at \in {"gpxText", "analyze"}
              /\ UNCHANGED video
           \/ /\ runs[r].at \in {"metadata", "seek"}
              /\ video.pending = runs[r].at
              /\ video.onerror = r
              /\ video' = [video EXCEPT !.pending = "none"]
        /\ Catch(r)
        /\ UNCHANGED <<isCancelledRef, mounted, coreVars, trackVars, prfVars>>

InitAnalysis ==
    /\ mounted = TRUE
    /\ status = "idle"
    /\ statusBy = 0
    /\ results = <<>>
    /\ isCancelledRef = FALSE
    /\ video = [onloadedmetadata |-> 0, onseeked |-> 0, onerror |-> 0, pending |-> "none"]
    /\ runs = <<>>
    /\ pc = "analysis"
    /\ aiDefects = <<>>
    /\ gtDefects = <<>>
    /\ iouThreshold = DefaultThreshold
    /\ aiIndex = 0
    /\ matchedGtIndices = {}
    /\ perClassData = NewObject
    /\ bestMatches = <<>>
    /\ metrics = NoValue
    /\ boxA = NoValue
    /\ boxB = NoValue
    /\ iou = NoValue
    /\ calls = <<>>
    /\ NoTrack
    /\ NoPrf

NextAnalysis ==
    \/ HandleAnalyze
    \/ HandleCancel
    \/ HandleVideoFileChange
    \/ TryAgain
    \/ Unmount
    \/ ResolveGpxText
    \/ ResolveMetadata
    \/ ResolveSeek
    \/ ResolveAnalyze
    \/ RejectAwait

SpecAnalysis == InitAnalysis /\ [][NextAnalysis]_vars

(***************************************************************************)
(***************************************************************************)
(* Properties                                                              *)
(***************************************************************************)
\* The normalized labels as the specification lists them, written out
ClsAlligatorCrack == <<"A","l","l","i","g","a","t","o","r"," ","c","r","a","c","k">>
ClsD00 == <<"D","0","0">>
ClsEclat == <<"É","c","l","a","t">>
ClsSSeta == <<"S","S","e","t","a">>

ExpectedAiClass(t) ==
    CASE t = TAlligatorCrack -> LitCrack
      [] t = TLongitudinalCrack -> LitCrack
      [] t = TTransverseCrack -> LitCrack
      [] t = TBlockCrack -> LitCrack
      [] t = TPothole -> LitPothole
      [] t = TRutting -> TRutting
      [] t = TRoughness -> TRoughness
      [] t = TDistress -> TDistress

ExpectedGtClass(l) ==
    CASE l = GPotholeLower -> LitPothole
      [] l = GPotholeUpper -> LitPothole
      [] l = TPothole -> LitPothole
      [] l = GCrackUpper -> LitCrack
      [] l = GCrackLower -> LitCrack
      [] l = GAlligatorCrackLower -> ClsAlligatorCrack
      [] l = TAlligatorCrack -> ClsAlligatorCrack
      [] l = GRuttingMixed -> TRutting
      [] l = TRutting -> TRutting
      [] l = GDigit -> ClsD00
      [] l = GEmpty -> <<>>
      [] l = GEclatLower -> ClsEclat
      [] l = GEclatUpper -> ClsEclat
      [] l = GSharpS -> ClsSSeta
      [] l = ProtoKey -> ProtoKey
      [] l = GProtoUpper -> ProtoKey

Done == pc = "done"
ThresholdInUnitInterval == NumGeq(iouThreshold, Zero) /\ NumGeq(Num(1), iouThreshold)

\* the entries of perClassMetrics as Object.keys, Object.entries and for-in
\* list them, and the entry of category c
Entries == ObjectKeys(metrics.perClassMetrics)
Entry(c) == metrics.perClassMetrics.own[c]

\* detection i and reference k (1-based) have the same normalized category
SameClass(i, k) == ExpectedAiClass(aiDefects[i].type) = ExpectedGtClass(gtDefects[k].type)
PairIou(i, k) == calculateIou(aiDefects[i].boundingBox, gtDefects[k].boundingBox)
RefsOfClass(c) == {k \in 1..Len(gtDefects) : ExpectedGtClass(gtDefects[k].type) = c}

\* C1: matching is one-to-one: no reference index is consumed by two
\* detections, so matches <= min(#detections, #references); and of two
\* detections of one type that both overlap the single reference with
\* IoU >= threshold, exactly one is a true positive and the other a false
\* positive.  (Stated as the claim stands; it fails for a threshold <= -1.)
OneToOneMatching ==
    /\ \A i, j \in 1..Len(bestMatches) :
          (i # j /\ bestMatches[i].tp /\ bestMatches[j].tp
                 /\ bestMatches[i].gtIndex >= 0)
             => bestMatches[i].gtIndex # bestMatches[j].gtIndex
    /\ Done => metrics.matches <= Min(Len(aiDefects), Len(gtDefects))
    /\ (/\ Done
        /\ Len(aiDefects) = 2
        /\ Len(gtDefects) = 1
        /\ \A i \in 1..2 : SameClass(i, 1) /\ NumGeq(PairIou(i, 1), iouThreshold))
       => (metrics.matches = 1 /\ metrics.falsePositives = 1)

\* C2: every detection is counted exactly once, as a true positive or as a
\* false positive: matches + falsePositives = number of detections, and the
\* call returns (no exception)
EveryDetectionCounted ==
    /\ pc # "threw"
    /\ Done => metrics.matches + metrics.falsePositives = Len(aiDefects)

\* C2 witness: a detection whose category no reference has, next to a matched one
EveryDetectionCountedWitness ==
    /\ Done
    /\ aiDefects = <<Defect(TRutting, BoxFull), Defect(TPothole, BoxFull)>>
    /\ gtDefects = <<Defect(GPotholeLower, BoxFull)>>
    /\ iouThreshold = DefaultThreshold
    /\ metrics.matches = 1
    /\ metrics.falsePositives = 1

\* C3: for a threshold in [0,1], each category has tp + fn = totalGroundTruth
\* = the number of references of that category, so matches + misses = number
\* of references; an unmatched single reference gives fn = 1 and recall 0
EveryReferenceCounted ==
    (Done /\ ThresholdInUnitInterval) =>
        /\ \A c \in Entries :
              /\ Entry(c).tp + Entry(c).fn = Entry(c).totalGroundTruth
              /\ Entry(c).totalGroundTruth = Cardinality(RefsOfClass(c))
        /\ metrics.matches + metrics.misses = Len(gtDefects)
        /\ (Len(gtDefects) = 1 /\ metrics.matches = 0) =>
              LET m == GetProp(metrics.perClassMetrics,
                               ExpectedGtClass(gtDefects[1].type))
              IN  m.fn = 1 /\ m.recall = Zero

\* C3 witness: one reference, one detection of another category
EveryReferenceCountedWitness ==
    /\ Done
    /\ iouThreshold = DefaultThreshold
    /\ aiDefects = <<Defect(TPothole, BoxFull)>>
    /\ gtDefects = <<Defect(GCrackUpper, BoxFull)>>
    /\ metrics.misses = 1
    /\ Entry(LitCrack).fn = 1

PerfectClass ==
    [tp |-> 1, fp |-> 0, fn |-> 0, totalGroundTruth |-> 1,
     precision |-> Num(1), recall |-> Num(1), f1Score |-> Num(1)]

\* C4: one detection and one reference of the same normalized type with
\* IoU >= threshold give matches = 1, falsePositives = misses = 0,
\* precision = recall = f1Score = 1 and the single category entry
\* {tp:1, fp:0, fn:0, totalGroundTruth:1, precision:1, recall:1, f1Score:1}
SingleMatch ==
    (/\ Done
     /\ Len(aiDefects) = 1
     /\ Len(gtDefects) = 1
     /\ SameClass(1, 1)
     /\ NumGeq(PairIou(1, 1), iouThreshold))
    => /\ metrics.matches = 1
       /\ metrics.falsePositives = 0
       /\ metrics.misses = 0
       /\ metrics.precision = Num(1)
       /\ metrics.recall = Num(1)
       /\ metrics.f1Score = Num(1)
       /\ Entries = {ExpectedAiClass(aiDefects[1].type)}
       /\ Entry(ExpectedAiClass(aiDefects[1].type)) = PerfectClass

\* C4 witness: reference "pothole", detection "Pothole", identical boxes
SingleMatchWitness ==
    /\ Done
    /\ aiDefects = <<Defect(TPothole, BoxFull)>>
    /\ gtDefects = <<Defect(GPotholeLower, BoxFull)>>
    /\ iouThreshold = DefaultThreshold
    /\ Entry(LitPothole) = PerfectClass
    /\ metrics.averageIou = Num(1)

\* C5: with no detections the call returns matches = 0, falsePositives = 0,
\* misses = number of references and precision = recall = f1Score = 0
NoDetections ==
    /\ Len(aiDefects) = 0 => pc # "threw"
    /\ (Done /\ Len(aiDefects) = 0) =>
          /\ metrics.matches = 0
          /\ metrics.falsePositives = 0
          /\ metrics.misses = Len(gtDefects)
          /\ metrics.precision = Zero
          /\ metrics.recall = Zero
          /\ metrics.f1Score = Zero

\* C5 witness: two references, no detection
NoDetectionsWitness ==
    /\ Done
    /\ Len(aiDefects) = 0
    /\ Len(gtDefects) = 2
    /\ metrics.misses = 2

\* C6: with no references the call returns matches = 0, misses = 0,
\* falsePositives = number of detections, precision = recall = f1Score = 0
\* and averageIou = 0; with both lists empty perClassMetrics is empty.
\* (Stated as the claim stands; it fails for a threshold <= -1.)
NoReferences ==
    /\ Len(gtDefects) = 0 => pc # "threw"
    /\ (Done /\ Len(gtDefects) = 0) =>
          /\ metrics.matches = 0
          /\ metrics.misses = 0
          /\ metrics.falsePositives = Len(aiDefects)
          /\ metrics.precision = Zero
          /\ metrics.recall = Zero
          /\ metrics.f1Score = Zero
          /\ metrics.averageIou = Zero
          /\ Len(aiDefects) = 0 => metrics.perClassMetrics = NewObject

IouDone == pc = "iouDone"
Malformed(b) == NumGeq(b.x_min, b.x_max) \/ NumGeq(b.y_min, b.y_max)

\* the intersection of a and b has non-positive width (height): a right
\* (upper) edge is not beyond a left (lower) edge
NoOverlapWidth(a, b) ==
    \E hi \in {a.x_max, b.x_max}, lo \in {a.x_min, b.x_min} : NumLeq(hi, lo)
NoOverlapHeight(a, b) ==
    \E hi \in {a.y_max, b.y_max}, lo \in {a.y_min, b.y_min} : NumLeq(hi, lo)

\* C7: calculateIou returns 0, and so has not divided by zero, when the
\* intersection has non-positive width or height: disjoint or touching
\* boxes, and every malformed box against any box, itself included
ZeroIou ==
    IouDone =>
        /\ (NoOverlapWidth(boxA, boxB) \/ NoOverlapHeight(boxA, boxB)) => iou = Zero
        /\ (Malformed(boxA) \/ Malformed(boxB)) => iou = Zero

\* C7 witness: a box of negative width and height against itself
ZeroIouWitness ==
    /\ IouDone
    /\ boxA = Box(Tenth(GridMax), Tenth(GridMax), Zero, Zero)
    /\ boxB = boxA
    /\ iou = Zero

\* C8: calculateIou(A, B) and calculateIou(B, A) are the same value for all
\* boxes
SymmetricIou == IouDone => iou = calculateIou(boxB, boxA)

\* C8 witness: two overlapping boxes of different areas
SymmetricIouWitness ==
    /\ IouDone
    /\ boxA = BoxFull
    /\ boxB = Box(Zero, Zero, Tenth(1), Tenth(1))
    /\ NumGt(iou, Tenth(2))
    /\ NumLt(iou, Tenth(3))

\* C9: calculateIou(A, A) = 1 for a box of positive area, and every IoU is
\* in [0, 1].  (Stated as the claim stands; it fails for a box whose area
\* is below the least positive double.)
UnitIou ==
    IouDone =>
        /\ NumGeq(iou, Zero)
        /\ NumGeq(Num(1), iou)
        /\ (boxA = boxB /\ ~Malformed(boxA)) => iou = Num(1)

\* C10: labels are normalized before they are compared or counted: crack
\* subtypes become "Crack", "Pothole" stays, other detection types are
\* unchanged, a reference label becomes first letter upper case + rest lower
\* case; the class set, totalGroundTruth, matching and false negatives all
\* use the normalized labels
NormalizedLabels ==
    LET ca == ExpectedAiClass(aiDefects[1].type)
        cg == ExpectedGtClass(gtDefects[1].type)
        classes == allClasses(aiDefects, gtDefects)
    IN  /\ {classes[k] : k \in 1..Len(classes)} = {ca, cg}
        /\ pc \in {"match", "metrics", "done"} =>
              /\ GetProp(perClassData, cg).totalGroundTruth = 1
              /\ ca # cg => GetProp(perClassData, ca).totalGroundTruth = 0
        /\ Len(bestMatches) = 1 => (bestMatches[1].tp <=> ca = cg)
        /\ pc \in {"metrics", "done"} =>
              GetProp(perClassData, cg).fn = IF ca = cg THEN 0 ELSE 1
        /\ Done =>
              LET ma == GetProp(metrics.perClassMetrics, ca)
                  mg == GetProp(metrics.perClassMetrics, cg)
              IN  /\ mg.totalGroundTruth = 1
                  /\ ca # cg => ma.totalGroundTruth = 0
                  /\ IF ca = cg
                     THEN ma.tp = 1 /\ ma.fp = 0 /\ ma.fn = 0
                     ELSE /\ ma.tp = 0 /\ ma.fp = 1 /\ ma.fn = 0
                          /\ mg.tp = 0 /\ mg.fp = 0 /\ mg.fn = 1

\* C10 witness: 'Alligator Crack' is matched with the reference "CRACK"
NormalizedLabelsWitness ==
    /\ Done
    /\ aiDefects[1].type = TAlligatorCrack
    /\ gtDefects[1].type = GCrackUpper
    /\ Entry(LitCrack).tp = 1

\* the greedy pass of lines 89-115 as a function of its arguments: the number
\* of true positives from detection i on
RECURSIVE GreedyMatches(_, _, _, _, _)
GreedyMatches(ais, gts, threshold, i, matched) ==
    IF i > Len(ais) THEN 0
    ELSE LET b == BestMatch(ais[i], gts, matched)
         IN  IF MeetsThreshold(b.iou, threshold)
             THEN 1 + GreedyMatches(ais, gts, threshold, i + 1, matched \cup {b.gtIndex})
             ELSE GreedyMatches(ais, gts, threshold, i + 1, matched)

Reverse(q) == [k \in 1..Len(q) |-> q[Len(q) + 1 - k]]

\* the size of a maximum one-to-one assignment of detections to references
\* of their category with IoU >= threshold
AdmissiblePairs ==
    {e \in (1..Len(aiDefects)) \X (1..Len(gtDefects)) :
        SameClass(e[1], e[2]) /\ NumGeq(PairIou(e[1], e[2]), iouThreshold)}
OneToOne(M) == \A e, f \in M : (e[1] = f[1]) <=> (e[2] = f[2])
MaxAssignment ==
    LET sizes == {Cardinality(M) : M \in {N \in SUBSET AdmissiblePairs : OneToOne(N)}}
    IN  CHOOSE n \in sizes : \A m \in sizes : m <= n

\* reference indices consumed before detection i was processed
ConsumedBefore(i) == {bestMatches[j].gtIndex : j \in {j \in 1..(i - 1) : bestMatches[j].tp}}

GreedyScenario ==
    /\ aiDefects = <<Defect(TPothole, BoxFull), Defect(TPothole, BoxHigh)>>
    /\ gtDefects = <<Defect(GPotholeLower, BoxFull), Defect(GPotholeUpper, BoxLow)>>
    /\ iouThreshold = DefaultThreshold

\* C11: matching is greedy in detection order: each detection takes the best
\* reference of its category still unconsumed when it is processed; this is
\* no maximum assignment and depends on the order: for detections
\* [Full, High] and references [Full, Low] at threshold 0.5 the call returns
\* 1 match, 1 false positive, 1 miss, while a one-to-one assignment of size 2
\* exists and the reversed detection list gives 2 matches
GreedyInOrder ==
    /\ Done =>
          \A i \in 1..Len(bestMatches) : \A k \in 1..Len(gtDefects) :
              ((k - 1) \notin ConsumedBefore(i) /\ SameClass(i, k))
                 => NumGeq(bestMatches[i].iou, PairIou(i, k))
    /\ (Done /\ GreedyScenario) =>
          /\ metrics.matches = 1
          /\ metrics.falsePositives = 1
          /\ metrics.misses = 1
          /\ MaxAssignment = 2
          /\ GreedyMatches(Reverse(aiDefects), gtDefects, iouThreshold, 1, {}) = 2

\* C11 witness: a returned call with fewer matches than a maximum assignment
\* has, and a different number of matches for the reversed detection list
GreedyInOrderWitness ==
    /\ Done
    /\ ThresholdInUnitInterval
    /\ metrics.matches < MaxAssignment
    /\ GreedyMatches(Reverse(aiDefects), gtDefects, iouThreshold, 1, {}) # metrics.matches

SameArguments(c) ==
    /\ c.aiDefects = aiDefects
    /\ c.gtDefects = gtDefects
    /\ c.iouThreshold = iouThreshold

\* C12: two calls with identical detections, references and threshold return
\* identical ValidationMetrics, whatever was called before
Deterministic ==
    /\ Done => \A k \in 1..Len(calls) : SameArguments(calls[k]) => calls[k].metrics = metrics
    /\ \A j, k \in 1..Len(calls) :
          (/\ calls[j].aiDefects = calls[k].aiDefects
           /\ calls[j].gtDefects = calls[k].gtDefects
           /\ calls[j].iouThreshold = calls[k].iouThreshold)
          => calls[j].metrics = calls[k].metrics

\* C12 witness: a call that matched a reference is repeated and has returned
DeterministicWitness ==
    /\ Done
    /\ Len(calls) >= 1
    /\ SameArguments(calls[Len(calls)])
    /\ metrics.matches >= 1
    /\ metrics = calls[Len(calls)].metrics

\* inside a call of compareDetections
Running == pc \in {"start", "match", "metrics"}

\* nothing consumed and nothing accumulated
FreshState ==
    /\ matchedGtIndices = {}
    /\ perClassData.proto = ObjectPrototype
    /\ \A className \in ObjectKeys(perClassData) :
          /\ perClassData.own[className].tp = 0
          /\ perClassData.own[className].fp = 0
          /\ perClassData.own[className].fn = 0
          /\ perClassData.own[className].iouSum = Zero

\* C13: no step of a call of compareDetections changes the detection list or
\* the reference list, no step of interpolateLocation changes the track
\* (contents and order), and when the first detection of any call is about
\* to be processed the consumed set is empty and every accumulator is zero
InputsUntouched ==
    /\ [][/\ Running => (aiDefects' = aiDefects /\ gtDefects' = gtDefects)
          /\ pc = "interpolate" => track' = track]_vars
    /\ []((pc = "match" /\ aiIndex = 0) => FreshState)

\* C13 witness: a second call is about to process its first detection after
\* a call that consumed a reference and counted a true positive
InputsUntouchedWitness ==
    /\ pc = "match"
    /\ aiIndex = 0
    /\ Len(calls) = 1
    /\ calls[1].metrics.matches >= 1
    /\ Len(aiDefects) >= 1
    /\ Len(gtDefects) >= 1
    /\ FreshState

Located == pc = "located"

\* the time looked up: videoStartTime + timestamp * 1000 (ms)
TargetTime == NumAdd(videoStartTime, NumMul(timestamp, Num(1000)))

ValidPoint(p) == IsFinite(p.lat) /\ IsFinite(p.lon) /\ IsFinite(p.time)
ValidTrack == \A i \in 1..Len(track) : ValidPoint(track[i])

\* the target lies between consecutive points i and i+1
Between(i) ==
    /\ NumLeq(track[i].time, TargetTime)
    /\ NumLeq(TargetTime, track[i + 1].time)

\* the linear interpolation between p1 and p2 the specification gives
Interpolated(p1, p2) ==
    LET f == NumDiv(NumSub(TargetTime, p1.time), NumSub(p2.time, p1.time))
    IN  LatLon(NumAdd(p1.lat, NumMul(NumSub(p2.lat, p1.lat), f)),
               NumAdd(p1.lon, NumMul(NumSub(p2.lon, p1.lon), f)))

\* C14 as stated: on a time-sorted track, for every pair of consecutive
\* points p1, p2 with p1.time <= target <= p2.time and p1.time < p2.time the
\* resolved location is the linear interpolation between p1 and p2
InterpolatesEveryPair ==
    (Located /\ ValidTrack /\ TimeSorted(track)) =>
        \A i \in 1..(Len(track) - 1) :
            (Between(i) /\ NumLt(track[i].time, track[i + 1].time))
                => location = Interpolated(track[i], track[i + 1])

\* C14 amended: on a time-sorted track, for the first pair of consecutive
\* points p1, p2 (in track order) with p1.time <= target <= p2.time, if
\* p1.time < p2.time the resolved location is the linear interpolation
\* between p1 and p2; the track [(0,0,T0), (10,10,T0+10s)] and the target
\* T0+5s resolve to (5, 5)
InterpolatesFirstPair ==
    /\ (Located /\ ValidTrack /\ TimeSorted(track)) =>
          \A i \in 1..(Len(track) - 1) :
              (/\ Between(i)
               /\ \A j \in 1..(i - 1) : ~Between(j)
               /\ NumLt(track[i].time, track[i + 1].time))
                  => location = Interpolated(track[i], track[i + 1])
    /\ (Located /\ track = <<PointA, PointB>> /\ NumEq(TargetTime, SecondsAfterT0(5)))
          => location = LatLon(Num(5), Num(5))

\* C14 witness: a target strictly between two points of different latitude
\* and longitude differences has been resolved between them
InterpolatesFirstPairWitness ==
    /\ Located
    /\ track = <<PointA, PointC, PointB>>
    /\ timestamp = Ratio(5, 2)
    /\ NumEq(TargetTime, NumAdd(T0, Num(2500)))
    /\ location = LatLon(Ratio(1, 20), Ratio(1, 10))

CoordinateOf(p) == LatLon(p.lat, p.lon)

\* C15: on a non-empty time-sorted track every target is resolved to a
\* coordinate: a target before the first point's time to the first point, a
\* target after the last point's time to the last point, and on a track of
\* one point every target to that point; the track [(1,1,T0)] and the target
\* T0-100s resolve to (1, 1)
EdgeClamped ==
    /\ (Located /\ Len(track) >= 1 /\ ValidTrack /\ TimeSorted(track)) =>
          /\ location # Null
          /\ NumLt(TargetTime, track[1].time) => location = CoordinateOf(track[1])
          /\ NumGt(TargetTime, track[Len(track)].time)
                => location = CoordinateOf(track[Len(track)])
          /\ Len(track) = 1 => location = CoordinateOf(track[1])
    /\ (Located /\ track = <<PointE>> /\ NumEq(TargetTime, SecondsAfterT0(0 - 100)))
          => location = LatLon(Num(1), Num(1))

\* C15 witness: a target 100 s before the first of two points has been
\* resolved to the first point
EdgeClampedWitness ==
    /\ Located
    /\ track = <<PointE, PointB>>
    /\ NumEq(TargetTime, SecondsAfterT0(0 - 100))
    /\ location = LatLon(Num(1), Num(1))

\* the track comes from a GPX document
FromDocument == gpxContent # NoContent

\* what the specification asks of a <trkpt>: numeric lat and lon attributes
\* and a <time> that is a date (in every time zone)
ValidTrkpt(pt) ==
    /\ pt.lat.has /\ ~IsNaN(parseFloat(pt.lat.text))
    /\ pt.lon.has /\ ~IsNaN(parseFloat(pt.lon.text))
    /\ pt.time.has
    /\ \A tza \in LocalOffsets : ~IsNaN(DateGetTime(pt.time.text, tza))

DistinctTimes(points) ==
    \A i, j \in 1..Len(points) : i # j => ~NumEq(points[i].time, points[j].time)

\* the same points in ascending order of their times
Ascending(points) ==
    CHOOSE r \in AnyOrder(points) :
        \A i \in 1..(Len(r) - 1) : NumLt(r[i].time, r[i + 1].time)

NoNaN(p) == ~IsNaN(p.lat) /\ ~IsNaN(p.lon) /\ ~IsNaN(p.time)

\* C16: for valid track points with pairwise distinct timestamps, in any
\* order, and any target, interpolateLocation resolves the location it
\* resolves for the same points in ascending order of time.  (Stated as the
\* claim stands; it fails for a list that is not in ascending order,
\* because interpolateLocation does not sort.)
OrderIndependent ==
    (Located /\ Len(track) >= 1 /\ ValidTrack /\ DistinctTimes(track)) =>
        location = interpolateLocation(timestamp, Ascending(track), videoStartTime)

\* The sort of parseGpx (part_007 line 41) in front of interpolateLocation:
\* for <trkpt> elements that are all valid and have pairwise distinct
\* timestamps, in any document order, and any target, handleAnalyze
\* resolves the location it resolves for the same points in ascending
\* order of time.  (Valid elements give a track of as many points, none of
\* them NaN: these two tests come first, the tests that parse the elements
\* again follow.)
OrderIndependentInDocuments ==
    (/\ Located
     /\ FromDocument
     /\ Len(track) = Len(gpxContent.trkpts)
     /\ \A i \in 1..Len(track) : NoNaN(track[i])
     /\ \A i \in 1..Len(gpxContent.trkpts) : ValidTrkpt(gpxContent.trkpts[i]))
    => \A tza \in LocalOffsets :
          LET points == PushedPoints(gpxContent.trkpts, tza)
          IN  (track \in AnyOrder(points) /\ DistinctTimes(points)) =>
                  LET sorted == Ascending(points)
                  IN  location = interpolateLocation(timestamp, sorted, sorted[1].time)

\* parseGpx has returned
Parsed == FromDocument /\ pc \in {"interpolate", "located"}

ValidTrkpts(trkpts) == {i \in 1..Len(trkpts) : ValidTrkpt(trkpts[i])}

\* C17: every point parseGpx returns has a valid latitude, longitude and
\* timestamp: exactly the valid <trkpt> elements are returned, and the
\* returned track is in non-decreasing order of time.  (Stated as the claim
\* stands; it fails for a <trkpt> without a numeric attribute or a date.)
OnlyValidPoints ==
    Parsed =>
        /\ \A i \in 1..Len(track) : ValidPoint(track[i])
        /\ Len(track) = Cardinality(ValidTrkpts(gpxContent.trkpts))
        /\ TimeSorted(track)

\* the document gives no usable track data: it is unparsable, has no
\* <trkpt>, or has no valid <trkpt>
NoUsableData ==
    \/ gpxContent.parsererror
    \/ ValidTrkpts(gpxContent.trkpts) = {}

\* C18: interpolateLocation on an empty track returns null, and parseGpx
\* throws (no track, no start time and no location follow) when the
\* document is unparsable, has no <trkpt> or yields no valid point.
\* (Stated as the claim stands; it fails with the points of C17.)
NoDataNoCoordinate ==
    /\ (Located /\ Len(track) = 0) => location = Null
    /\ (FromDocument /\ NoUsableData) =>
          /\ pc \in {"parse", "gpxError"}
          /\ track = <<>>
          /\ location = Undefined

\* C19: a true positive pairs a detection with a reference of its own
\* normalized category, so a category with a true positive has
\* totalGroundTruth >= 1; and a reference whose normalized label equals no
\* normalized detection label is never consumed and is counted as a false
\* negative.  (Stated as the claim stands; it fails for a threshold <= -1.)
TypeConstrained ==
    /\ \A i \in 1..Len(bestMatches) : bestMatches[i].tp =>
          /\ bestMatches[i].gtIndex >= 0
          /\ SameClass(i, bestMatches[i].gtIndex + 1)
    /\ Done => \A c \in Entries : Entry(c).tp >= 1 => Entry(c).totalGroundTruth >= 1
    /\ Done => \A k \in 1..Len(gtDefects) :
          (\A i \in 1..Len(aiDefects) : ~SameClass(i, k)) =>
              LET m == GetProp(metrics.perClassMetrics, ExpectedGtClass(gtDefects[k].type))
              IN  /\ (k - 1) \notin matchedGtIndices
                  /\ m.tp = 0
                  /\ m.fn = Cardinality(RefsOfClass(ExpectedGtClass(gtDefects[k].type)))

\* references of the category of detection i not consumed when it is processed
Candidates(i) ==
    {k \in 1..Len(gtDefects) : (k - 1) \notin ConsumedBefore(i) /\ SameClass(i, k)}

TruePositives == {i \in 1..Len(bestMatches) : bestMatches[i].tp}

\* C20: detection i is a true positive exactly when some unconsumed
\* reference of its category has IoU >= threshold with it (the greatest
\* such IoU is then >= threshold, equality included); otherwise it is a
\* false positive and the consumed set stays as it was; the counts returned
\* are those of the true and false positives.  (Stated as the claim
\* stands; it fails for a threshold <= -1.)
ThresholdRule ==
    /\ \A i \in 1..Len(bestMatches) :
          bestMatches[i].tp <=>
             \E k \in Candidates(i) : NumGeq(PairIou(i, k), iouThreshold)
    /\ pc \in {"match", "metrics", "done"} =>
          matchedGtIndices = {bestMatches[i].gtIndex : i \in TruePositives}
    /\ Done =>
          /\ metrics.matches = Cardinality(TruePositives)
          /\ metrics.falsePositives = Len(aiDefects) - Cardinality(TruePositives)

\* C21: whenever a true positive consumes reference k, k is a reference of
\* the detection's category that was unconsumed, no such reference has a
\* greater IoU with the detection, and every such reference of equal IoU
\* has an index >= k; the IoU recorded is that of the pair (read when the
\* call has returned and bestMatches holds every detection)
BestReferenceConsumed ==
    Done =>
        \A i \in TruePositives : bestMatches[i].gtIndex >= 0 =>
            LET k == bestMatches[i].gtIndex + 1
            IN  /\ k \in Candidates(i)
                /\ bestMatches[i].iou = PairIou(i, k)
                /\ \A j \in Candidates(i) :
                      /\ NumGeq(PairIou(i, k), PairIou(i, j))
                      /\ NumEq(PairIou(i, j), PairIou(i, k)) => k <= j

\* C21 witness: a detection with the same IoU to two unconsumed references
\* of its category has consumed the one of lower index
BestReferenceConsumedWitness ==
    /\ Done
    /\ Len(gtDefects) = 2
    /\ \E i \in TruePositives :
          /\ Candidates(i) = {1, 2}
          /\ NumEq(PairIou(i, 1), PairIou(i, 2))
          /\ bestMatches[i].gtIndex = 0

\* two detections of one category both reach the threshold with the single
\* reference
TwoOnOne ==
    /\ Len(aiDefects) = 2
    /\ Len(gtDefects) = 1
    /\ \A i \in 1..2 : SameClass(i, 1) /\ NumGeq(PairIou(i, 1), iouThreshold)

\* C22: of two detections of one category that both reach IoU >= threshold
\* with the single reference, the earlier one in the list is the true
\* positive and the later one the false positive, whichever has the greater
\* IoU.  (Stated as the claim stands; it fails for a threshold <= -1.)
EarlierDetectionWins ==
    (Done /\ TwoOnOne) =>
        /\ bestMatches[1].tp
        /\ bestMatches[1].gtIndex = 0
        /\ ~bestMatches[2].tp
        /\ metrics.matches = 1
        /\ metrics.falsePositives = 1

DetectionCategories == {ExpectedAiClass(aiDefects[i].type) : i \in 1..Len(aiDefects)}
ReferenceCategories == {ExpectedGtClass(gtDefects[k].type) : k \in 1..Len(gtDefects)}
FalsePositivesOf(c) ==
    {i \in 1..Len(bestMatches) :
        ~bestMatches[i].tp /\ ExpectedAiClass(aiDefects[i].type) = c}

\* C23: perClassMetrics has an entry for exactly the categories of the
\* normalized reference labels and the normalized detection labels; the fp
\* of an entry counts the false positives among the detections of that
\* category; a category only the detector emitted has totalGroundTruth = 0,
\* tp = 0 and fn = 0.  (Stated as the claim stands; it fails for a
\* threshold <= -1.)
CategoryEntries ==
    Done =>
        /\ Entries = DetectionCategories \cup ReferenceCategories
        /\ \A c \in Entries : Entry(c).fp = Cardinality(FalsePositivesOf(c))
        /\ \A c \in DetectionCategories \ ReferenceCategories :
              /\ Entry(c).totalGroundTruth = 0
              /\ Entry(c).tp = 0
              /\ Entry(c).fn = 0

SumOfEntries(field) == SumOver([c \in Entries |-> Entry(c)[field]], Entries)

\* the formulas of a category, on counts
PrecisionOf(tp, fp) == IF tp + fp = 0 THEN Zero ELSE Ratio(tp, tp + fp)
RecallOf(tp, fn) == IF tp + fn = 0 THEN Zero ELSE Ratio(tp, tp + fn)
HarmonicOf(p, r) ==
    IF NumEq(NumAdd(p, r), Zero) THEN Zero
    ELSE NumDiv(NumMul(NumMul(Num(2), p), r), NumAdd(p, r))

\* C24: matches, falsePositives and misses are the sums of tp, fp and fn
\* over the entries of perClassMetrics, and the overall precision, recall
\* and f1Score follow from these sums by the formulas of a category.
\* (Stated as the claim stands; it fails for a reference labelled
\* __proto__, whose category has no entry.)
TotalsAreSums ==
    Done =>
        LET tp == SumOfEntries("tp")
            fp == SumOfEntries("fp")
            fn == SumOfEntries("fn")
        IN  /\ metrics.matches = tp
            /\ metrics.falsePositives = fp
            /\ metrics.misses = fn
            /\ metrics.precision = PrecisionOf(tp, fp)
            /\ metrics.recall = RecallOf(tp, fn)
            /\ metrics.f1Score = HarmonicOf(PrecisionOf(tp, fp), RecallOf(tp, fn))

PrfDone == pc = "prfDone"
InUnitInterval(x) == IsFinite(x) /\ NumGeq(x, Zero) /\ NumGeq(Num(1), x)

\* C25: for counts tp, fp, fn >= 0, precision = tp/(tp+fp), or 0 when
\* tp+fp = 0; recall = tp/(tp+fn), or 0 when tp+fn = 0; f1Score =
\* 2*precision*recall/(precision+recall), or 0 when precision+recall = 0;
\* every value is a number in [0, 1]
PrfFormulas ==
    PrfDone =>
        /\ prfOut.precision = PrecisionOf(counts.tp, counts.fp)
        /\ prfOut.recall = RecallOf(counts.tp, counts.fn)
        /\ prfOut.f1Score = HarmonicOf(prfOut.precision, prfOut.recall)
        /\ InUnitInterval(prfOut.precision)
        /\ InUnitInterval(prfOut.recall)
        /\ InUnitInterval(prfOut.f1Score)

\* C25 witness: no true positive but false positives and misses: precision
\* and recall are 0 and so is f1Score
PrfFormulasWitness ==
    /\ PrfDone
    /\ counts.tp = 0
    /\ counts.fp >= 1
    /\ counts.fn >= 1
    /\ prfOut = [precision |-> Zero, recall |-> Zero, f1Score |-> Zero]

\* the detections matched with a reference, in list order, and the sum of
\* the IoU of the matched (detection, reference) pairs
MatchedPairs ==
    SelectSeq([i \in 1..Len(bestMatches) |-> i],
              LAMBDA i : bestMatches[i].tp /\ bestMatches[i].gtIndex >= 0)
RECURSIVE IouSumFrom(_)
IouSumFrom(k) ==
    IF k = 0 THEN Zero
    ELSE NumAdd(IouSumFrom(k - 1),
                PairIou(MatchedPairs[k], bestMatches[MatchedPairs[k]].gtIndex + 1))
MatchedIouSum == IouSumFrom(Len(MatchedPairs))

\* C26: averageIou is the sum of the IoU of the matched (detection,
\* reference) pairs divided by matches, and 0 when matches = 0; for a
\* threshold in [0, 1] and matches > 0 it lies between the threshold and 1.
\* (Stated as the claim stands; it fails for a threshold <= -1.)
AverageIouIsMean ==
    Done =>
        /\ metrics.averageIou =
              IF metrics.matches = 0 THEN Zero
              ELSE NumDiv(MatchedIouSum, Num(metrics.matches))
        /\ (metrics.matches > 0 /\ ThresholdInUnitInterval) =>
              /\ NumGeq(metrics.averageIou, iouThreshold)
              /\ NumGeq(Num(1), metrics.averageIou)

\* i is the pair the loop of interpolateLocation stops at
FoundPair(i) == Between(i) /\ \A j \in 1..(i - 1) : ~Between(j)

\* C27: when the pair found has equal timestamps the location is p1's
\* coordinate; on every track of valid points, in any order, duplicate
\* timestamps included, the latitude and longitude resolved are numbers
NoDivisionByZero ==
    (Located /\ Len(track) >= 1 /\ ValidTrack) =>
        /\ \A i \in 1..(Len(track) - 1) :
              (FoundPair(i) /\ NumEq(track[i].time, track[i + 1].time))
                 => location = CoordinateOf(track[i])
        /\ IsFinite(location.latitude)
        /\ IsFinite(location.longitude)

\* C27 witness: the target is the timestamp two consecutive points share,
\* and the first of them has been returned
NoDivisionByZeroWitness ==
    /\ Located
    /\ track = <<PointC, PointD, PointB>>
    /\ NumEq(TargetTime, SecondsAfterT0(5))
    /\ FoundPair(1)
    /\ NumEq(track[1].time, track[2].time)
    /\ location = LatLon(Ratio(1, 10), Ratio(1, 5))

\* x lies between a and b, ends included
Within(x, a, b) ==
    \/ NumLeq(a, x) /\ NumLeq(x, b)
    \/ NumLeq(b, x) /\ NumLeq(x, a)

\* C28: on a non-empty time-sorted track the resolved latitude equals the
\* latitude of a track point or lies between the latitudes of two
\* consecutive track points, and likewise the longitude; a target equal to
\* the timestamp of a track point resolves to the coordinate of a track
\* point with that timestamp; the interpolation factor of the pair found is
\* in [0, 1].  (Stated as the claim stands; it fails where the rounded
\* p1 + (p2 - p1) * 1 is not p2.)
NeverExtrapolates ==
    (Located /\ Len(track) >= 1 /\ ValidTrack /\ TimeSorted(track)) =>
        /\ \/ \E i \in 1..Len(track) : location = CoordinateOf(track[i])
           \/ \E i \in 1..(Len(track) - 1) :
                 /\ Within(location.latitude, track[i].lat, track[i + 1].lat)
                 /\ Within(location.longitude, track[i].lon, track[i + 1].lon)
        /\ (\E i \in 1..Len(track) : NumEq(track[i].time, TargetTime)) =>
              \E i \in 1..Len(track) :
                  /\ NumEq(track[i].time, TargetTime)
                  /\ location = CoordinateOf(track[i])
        /\ \A i \in 1..(Len(track) - 1) :
              (FoundPair(i) /\ ~NumEq(track[i].time, track[i + 1].time)) =>
                  InUnitInterval(NumDiv(NumSub(TargetTime, track[i].time),
                                        NumSub(track[i + 1].time, track[i].time)))

\* C29: for every threshold, a true positive has selected a reference of
\* the list that was unconsumed and of the detection's category; a
\* detection without any such reference is a false positive; the consumed
\* set holds indices of the reference list only
OnlyRealReferences ==
    /\ \A i \in TruePositives :
          /\ bestMatches[i].gtIndex \in 0..(Len(gtDefects) - 1)
          /\ (bestMatches[i].gtIndex + 1) \in Candidates(i)
    /\ \A i \in 1..Len(bestMatches) : Candidates(i) = {} => ~bestMatches[i].tp
    /\ matchedGtIndices \subseteq 0..(Len(gtDefects) - 1)

\* the number of defects in q that run r appended
AppendedBy(q, r) == Cardinality({k \in 1..Len(q) : q[k] = r})

\* C30: in no step does a run that has been cancelled add a defect to
\* results or set status to 'done' or 'error'
CancelledRunIsSilent ==
    [][\A r \in 1..Len(runs) :
          runs[r].cancelled =>
              /\ AppendedBy(results', r) <= AppendedBy(results, r)
              /\ ~(/\ status' \in {"done", "error"}
                    /\ statusBy' = r
                    /\ <<status, statusBy>> # <<status', statusBy'>>)]_vars

====
